---- MODULE Spec2Model ----
(***************************************************************************)
(* State-machine model of MaiBot-Napcat-Adapter: the gateway session and   *)
(* its restart loop (main.py), the response pool, the notice engine with   *)
(* its ban bookkeeping and delivery queues (notice_handler.py), the size   *)
(* guard of the Core session (message_sending.py), the inbound filter gate *)
(* (message_handler.py) and the outbound translator                        *)
(* (send_message_handler.py).  Each subsystem has its own variables, its   *)
(* own initial condition and its own specification; a specification keeps  *)
(* the variables of the other subsystems at their construction values.     *)
(***************************************************************************)
EXTENDS Integers, Sequences, FiniteSets, TLC

VARIABLES
    \* ---- response pool and gateway reader (main.py, response_pool) ----
    callerPc,        \* position of each querying coroutine (_get_forward_message)
    observed,        \* outcomes each querying coroutine has observed, in order
    wire,            \* echo tokens of the actions that reached the gateway
    answered,        \* number of responses the gateway produced per token
    socketIn,        \* frames written by the gateway, not yet read by message_recv
    message_queue,   \* main.message_queue (frames with a post_type)
    pool,            \* response pool: token -> pending request (live, remaining)
    waiter,          \* waiter slot of each token: "pending" | "response" | "timeout"
    \* ---- supervisor: restart loop, reload callback, process exit (main.py) ----
    cfgAddr,         \* global_config.napcat_server host:port of the live snapshot
    busy,            \* addresses bound by other processes
    listener,        \* address our listening socket is bound to, 0 = none
    wsServer,        \* server referenced by main.websocket_server
    loopPc,          \* position of napcat_with_restart
    loopExit,        \* why napcat_with_restart left its loop
    restart_event,   \* main.restart_event
    cbPc,            \* position of on_napcat_config_change
    cbNew,           \* new_value.host:port of the reload in progress
    reloads,         \* reloads that changed the gateway address so far
    bindFailed,      \* a bind raised OSError
    procPc,          \* position of the __main__ block
    mainExc,         \* exception that ended loop.run_until_complete(main())
    pendingExit,     \* exit status of the SystemExit in flight, -1 = none
    exitCode,        \* exit status of the process, -1 = still running
    \* ---- notice engine (notice_handler.py) and ban store ----
    now,             \* int(time.time())
    banned_list,     \* NoticeHandler.banned_list
    lifted_list,     \* NoticeHandler.lifted_list
    db,              \* ban store: the persisted ban records
    inForce,         \* history: lift_time of the ban in force per (group, user), NoBan = none
    banNotices,      \* group_ban notices handled so far
    notice_queue,    \* notice_handler.notice_queue
    unsuccessful_notice_queue,  \* notice_handler.unsuccessful_notice_queue
    connections,     \* gateway connections accepted so far (set_server_connection calls)
    dispPc,          \* position of each send_notice task
    held,            \* to_be_send of each send_notice task, NoMsg = none
    accepted,        \* ids of the notices put_notice enqueued
    nextNoticeId,    \* id the next notice gets (ids follow the order of put_notice calls)
    sentLog,         \* ids of the notices Core received, in order
    \* ---- Core session send path (message_sending.py) ----
    envelope,        \* the MessageBase handed to message_send: its text by character class
    routerStatus,    \* what maibot_router.send_message will do: "true" | "false" | "raise"
    sendPc,          \* "call" | "returned"
    routerGot,       \* serialized sizes of the envelopes the router was handed
    sendReturn,      \* return value of message_send
    \* ---- gateway authentication (main.py check_napcat_server_token) ----
    token,           \* global_config.napcat_server.token: an optional string
    connHeader,      \* Authorization header of the current connection attempt
    connStatus,      \* "none" | "accepted" | "401"
    framesSent,      \* frames the client of the current connection has sent
    framesProcessed, \* frames of the current connection read by message_recv
    \* ---- inbound filter gate (message_handler.py) ----
    chat,            \* global_config.chat: list types, lists, ban_user_id, ban_qq_bot
    bot_id_list,     \* MessageHandler.bot_id_list: user_id -> TRUE | FALSE | "unset"
    filterPc,        \* "idle" | "queued": a chat message waits in message_queue
    lastRaw,         \* the raw message queued or handled last
    effects,         \* what that call did, in order: queries, "translate", "send"
    coreEnvelope,    \* what that call handed to the Core router, NoEnvelope if nothing
    \* ---- outbound translation (send_message_handler.py) ----
    segTree,         \* message_segment of the envelope Core sent
    outPc,           \* "call" | "built"
    payload,         \* the gateway payload parse_seg_to_nc_format returned
    use_tts,         \* global_config.voice.use_tts
    \* ---- inbound translation (message_handler.py handle_real_message) ----
    rawMessage,      \* the message array of the inbound gateway message
    inPc,            \* "call" | "done"
    inEnvelope,      \* segment types of the envelope sent to Core, NotSent if none was sent
    \* ---- inbound forward translation (message_handler.py handle_forward_message) ----
    fwdMessages,     \* the messages list of the forward manifest
    image_threshold, \* global_config.forward.image_threshold
    fwdPc,           \* "call" | "done"
    fwdResult,       \* what handle_forward_message produced
    \* ---- configuration manager (config_manager.py) ----
    cfgFile,         \* the config file on disk: [kind, content]
    liveConfig,      \* ConfigManager._config, the live snapshot
    callbacks,       \* ConfigManager._callbacks: entries [path, cbs] in registration order
    callLog,         \* callback invocations of the last reload, in order
    reloadReturn,    \* return value of the last reload: "none" | "True" | "False"
    reloadCalls,     \* number of reload() calls so far
    \* ---- configuration manager: file watcher and debounce ----
    dbClock,         \* the value time.time() returns, in ticks
    dbTasks,         \* the _debounced_reload coroutines: [pc, trigger_time]
    last_reload_trigger, \* ConfigManager._last_reload_trigger
    is_reloading,    \* ConfigManager._is_reloading
    dbPending,       \* new_config of the reload whose callbacks are running
    dbNotified,      \* an on_modified event has followed the last change of the file
    \* ---- command dispatcher (main_send_handler, send_command_handler) ----
    cmdMsg,          \* the command message send_command is handling
    cmdPc,           \* position of send_command
    gateway_actions, \* actions issued to the gateway for this command
    gateway_status,  \* status of the gateway's answer to this command
    cmdResponses,    \* command_response envelopes emitted for this command
    cmdServed,       \* commands send_command has returned from
    cmdFailed,       \* of those, the ones answered with success false
    \* ---- graceful shutdown (main.py) ----
    shutServer,      \* main.websocket_server refers to a server
    shutRouter,      \* mmc_com_layer.router is set
    shutTasks,       \* the other tasks of the event loop
    shutPc,          \* position of graceful_shutdown
    shutLog,         \* the phase steps graceful_shutdown has executed, in order
    shutOutcome,     \* how the awaited call of each phase ended
    putPc,           \* where the caller of put_notice is: idle, call, returned, blocked
    putWarned,       \* the warning of put_notice line 739 was logged
    \* ---- router task (main.message_process) ----
    routerQueue,     \* message_queue as the router task sees it
    routerPc,        \* "running" | "raised"
    routerArrived,   \* frames the reader has queued
    routerLog,       \* outcome of each handled frame, in order
    \* ---- gateway session (main.message_recv per connection) ----
    sessionOpen,     \* connections whose message_recv is running
    server_connection, \* the connection the handlers send to, NoConnection = None
    sessionQueue,    \* message_queue: the connection each queued frame came from
    \* ---- heartbeat supervision (meta_event_handler.py) ----
    heartbeatNow,    \* time.time(), in ticks
    last_heart_beat, \* MetaEventHandler.last_heart_beat
    _interval_checking, \* MetaEventHandler._interval_checking
    watchdogsCreated, \* check_heartbeat tasks created
    watchdogsRunning, \* check_heartbeat tasks in their loop
    watchdogsExited, \* check_heartbeat tasks that left their loop
    heartbeats       \* healthy heartbeats handled

poolVars == <<callerPc, observed, wire, answered, socketIn, message_queue, pool, waiter>>

supVars == <<cfgAddr, busy, listener, wsServer, loopPc, loopExit, restart_event,
             cbPc, cbNew, reloads, bindFailed, procPc, mainExc, pendingExit, exitCode>>

banVars == <<now, banned_list, lifted_list, db, inForce, banNotices>>

queueVars == <<notice_queue, unsuccessful_notice_queue>>

dispVars == <<connections, dispPc, held, accepted, nextNoticeId, sentLog>>

sendVars == <<envelope, routerStatus, sendPc, routerGot, sendReturn>>

authVars == <<token, connHeader, connStatus, framesSent, framesProcessed>>

filterVars == <<chat, bot_id_list, filterPc, lastRaw, effects, coreEnvelope>>

outVars == <<segTree, outPc, payload, use_tts>>

inVars == <<rawMessage, inPc, inEnvelope>>

fwdVars == <<fwdMessages, image_threshold, fwdPc, fwdResult>>

cfgVars == <<cfgFile, liveConfig, callbacks, callLog, reloadReturn, reloadCalls>>

dbVars == <<dbClock, dbTasks, last_reload_trigger, is_reloading, dbPending, dbNotified>>

cmdVars == <<cmdMsg, cmdPc, gateway_actions, gateway_status, cmdResponses, cmdServed, cmdFailed>>

shutVars == <<shutServer, shutRouter, shutTasks, shutPc, shutLog, shutOutcome>>

putVars == <<putPc, putWarned>>

routerVars == <<routerQueue, routerPc, routerArrived, routerLog>>

sessionVars == <<sessionOpen, server_connection, sessionQueue>>

heartbeatVars == <<heartbeatNow, last_heart_beat, _interval_checking, watchdogsCreated, watchdogsRunning, watchdogsExited, heartbeats>>

vars == <<poolVars, supVars, banVars, queueVars, dispVars, sendVars, authVars, filterVars, outVars, inVars, fwdVars, cfgVars, dbVars, cmdVars, shutVars, putVars, routerVars, sessionVars, heartbeatVars>>

\* The variables an action of one subsystem leaves alone.
notPool == <<supVars, banVars, queueVars, dispVars, sendVars, authVars, filterVars, outVars, inVars, fwdVars, cfgVars, dbVars, cmdVars, shutVars, putVars, routerVars, sessionVars, heartbeatVars>>
notSup == <<poolVars, banVars, queueVars, dispVars, sendVars, authVars, filterVars, outVars, inVars, fwdVars, cfgVars, dbVars, cmdVars, shutVars, putVars, routerVars, sessionVars, heartbeatVars>>
notBan == <<poolVars, supVars, dispVars, sendVars, authVars, filterVars, outVars, inVars, fwdVars, cfgVars, dbVars, cmdVars, shutVars, putVars, routerVars, sessionVars, heartbeatVars>>
notSend == <<poolVars, supVars, banVars, queueVars, dispVars, authVars, filterVars, outVars, inVars, fwdVars, cfgVars, dbVars, cmdVars, shutVars, putVars, routerVars, sessionVars, heartbeatVars>>
notDisp == <<poolVars, supVars, banVars, sendVars, authVars, filterVars, outVars, inVars, fwdVars, cfgVars, dbVars, cmdVars, shutVars, putVars, routerVars, sessionVars, heartbeatVars>>
notAuth == <<poolVars, supVars, banVars, queueVars, dispVars, sendVars, filterVars, outVars, inVars, fwdVars, cfgVars, dbVars, cmdVars, shutVars, putVars, routerVars, sessionVars, heartbeatVars>>
notFilter == <<poolVars, supVars, banVars, queueVars, dispVars, sendVars, authVars, outVars, inVars, fwdVars, cfgVars, dbVars, cmdVars, shutVars, putVars, routerVars, sessionVars, heartbeatVars>>
notOut == <<poolVars, supVars, banVars, queueVars, dispVars, sendVars, authVars, filterVars, inVars, fwdVars, cfgVars, dbVars, cmdVars, shutVars, putVars, routerVars, sessionVars, heartbeatVars>>
notIn == <<poolVars, supVars, banVars, queueVars, dispVars, sendVars, authVars, filterVars, outVars, fwdVars, cfgVars, dbVars, cmdVars, shutVars, putVars, routerVars, sessionVars, heartbeatVars>>
notFwd == <<poolVars, supVars, banVars, queueVars, dispVars, sendVars, authVars, filterVars, outVars, inVars, cfgVars, dbVars, cmdVars, shutVars, putVars, routerVars, sessionVars, heartbeatVars>>
notCfg == <<poolVars, supVars, banVars, queueVars, dispVars, sendVars, authVars, filterVars, outVars, inVars, fwdVars, dbVars, cmdVars, shutVars, putVars, routerVars, sessionVars, heartbeatVars>>
notDb == <<poolVars, supVars, banVars, queueVars, dispVars, sendVars, authVars, filterVars, outVars, inVars, fwdVars, cmdVars, shutVars, putVars, routerVars, sessionVars, heartbeatVars>>
notCmd == <<poolVars, supVars, banVars, queueVars, dispVars, sendVars, authVars, filterVars, outVars, inVars, fwdVars, cfgVars, dbVars, shutVars, putVars, routerVars, sessionVars, heartbeatVars>>
notShut == <<poolVars, supVars, banVars, queueVars, dispVars, sendVars, authVars, filterVars, outVars, inVars, fwdVars, cfgVars, dbVars, cmdVars, putVars, routerVars, sessionVars, heartbeatVars>>
notPut == <<poolVars, supVars, banVars, dispVars, sendVars, authVars, filterVars, outVars, inVars, fwdVars, cfgVars, dbVars, cmdVars, shutVars, routerVars, sessionVars, heartbeatVars>>
notRouter == <<poolVars, supVars, banVars, queueVars, dispVars, sendVars, authVars, filterVars, outVars, inVars, fwdVars, cfgVars, dbVars, cmdVars, shutVars, putVars, sessionVars, heartbeatVars>>
notSession == <<poolVars, supVars, banVars, queueVars, dispVars, sendVars, authVars, filterVars, outVars, inVars, fwdVars, cfgVars, dbVars, cmdVars, shutVars, putVars, routerVars, heartbeatVars>>
notHeartbeat == <<poolVars, supVars, banVars, queueVars, dispVars, sendVars, authVars, filterVars, outVars, inVars, fwdVars, cfgVars, dbVars, cmdVars, shutVars, putVars, routerVars, sessionVars>>

(***************************************************************************)
(* Generic helpers                                                         *)
(***************************************************************************)
Range(s) == {s[i] : i \in DOMAIN s}

RECURSIVE SeqCount(_, _)
SeqCount(s, x) ==
    IF s = <<>> THEN 0
    ELSE (IF Head(s) = x THEN 1 ELSE 0) + SeqCount(Tail(s), x)

(***************************************************************************)
(* SUPERVISOR: gateway listener, restart loop, reload callback, exit code  *)
(***************************************************************************)
\* Reloads that change the gateway address in one run.
MaxReloads == 2

\* host:port values the config file can name.
Addrs == {1, 2}

SupInit ==
    /\ cfgAddr \in Addrs
    /\ busy \in SUBSET Addrs
    /\ listener = 0
    /\ wsServer = "None"
    /\ loopPc = "clear"
    /\ loopExit = "none"
    /\ restart_event = FALSE
    /\ cbPc = "idle"
    /\ cbNew = 0
    /\ reloads = 0
    /\ bindFailed = FALSE
    /\ procPc = "running"
    /\ mainExc = "none"
    /\ pendingExit = -1
    /\ exitCode = -1

SupIdle ==
    /\ cfgAddr = 1
    /\ busy = {}
    /\ listener = 0
    /\ wsServer = "None"
    /\ loopPc = "clear"
    /\ loopExit = "none"
    /\ restart_event = FALSE
    /\ cbPc = "idle"
    /\ cbNew = 0
    /\ reloads = 0
    /\ bindFailed = FALSE
    /\ procPc = "running"
    /\ mainExc = "none"
    /\ pendingExit = -1
    /\ exitCode = -1

(***************************************************************************)
(* RESPONSE POOL                                                           *)
(***************************************************************************)
\* The querying coroutines that can be suspended at the same time: one
\* handler under the router task (message_process) and one under the Core
\* session's handler.  Coroutine c uses echo token c (uuid4 tokens are unique
\* per request).
\* Responses the gateway may produce for one token (2 = a duplicate response).
MaxAnswers == 2
\* Event frames (post_type "message") the gateway pushes besides responses.
MaxEvents == 1
\* Timeout of a pending request, in ticks of the sweeper's clock.
TimeoutTicks == 1
\* Frames the gateway has written that the reader has not yet read.
MaxSocket == 2

Callers == {1, 2}
Tokens == Callers

NoSlot == [live |-> FALSE, remaining |-> 0]

PoolInit ==
    /\ callerPc = [c \in Callers |-> "idle"]
    /\ observed = [c \in Callers |-> <<>>]
    /\ wire = {}
    /\ answered = [t \in Tokens |-> 0]
    /\ socketIn = <<>>
    /\ message_queue = <<>>
    /\ pool = [t \in Tokens |-> NoSlot]
    /\ waiter = [t \in Tokens |-> "pending"]

PoolIdle == PoolInit

\* Response Pool, Await: create the pending request with its deadline.
PoolAwait(t) ==
    /\ pool' = [pool EXCEPT ![t] = [live |-> TRUE, remaining |-> TimeoutTicks]]
    /\ UNCHANGED waiter

\* Response Pool, Deliver: post to the matching slot and destroy the pending
\* request; a response whose token has no live slot is dropped.
PoolDeliver(t) ==
    IF pool[t].live
    THEN /\ pool' = [pool EXCEPT ![t] = NoSlot]
         /\ waiter' = [waiter EXCEPT ![t] = "response"]
    ELSE UNCHANGED <<pool, waiter>>

\* Response Pool, sweeper: evict every slot whose deadline has passed and wake
\* its awaiter with Timeout.
Expired == {t \in Tokens : pool[t].live /\ pool[t].remaining = 0}

PoolSweep ==
    /\ Expired # {}
    /\ pool' = [t \in Tokens |-> IF t \in Expired THEN NoSlot ELSE pool[t]]
    /\ waiter' = [t \in Tokens |-> IF t \in Expired THEN "timeout" ELSE waiter[t]]
    /\ UNCHANGED <<callerPc, observed, wire, answered, socketIn, message_queue>>
    /\ UNCHANGED notPool

\* Time passes: every live pending request gets closer to its deadline.
PoolTick ==
    /\ \E t \in Tokens : pool[t].live /\ pool[t].remaining > 0
    /\ pool' = [t \in Tokens |->
                  IF pool[t].live /\ pool[t].remaining > 0
                  THEN [pool[t] EXCEPT !.remaining = @ - 1]
                  ELSE pool[t]]
    /\ UNCHANGED <<callerPc, observed, wire, answered, socketIn, message_queue, waiter>>
    /\ UNCHANGED notPool

\* A variant of the reader that puts every frame, responses included, on
\* message_queue for the router task.
RecvRouteQueued(frame) ==
    /\ message_queue' = Append(message_queue, frame)
    /\ UNCHANGED <<pool, waiter>>

\* main.message_recv, lines 27-32: route one decoded frame.  Frames with a
\* post_type go to message_queue, frames without one go to put_response;
\* any other post_type is ignored.
RecvRoute(frame) ==
    IF frame.post_type \in {"meta_event", "message", "notice"}
    THEN /\ message_queue' = Append(message_queue, frame)
         /\ UNCHANGED <<pool, waiter>>
    ELSE IF frame.post_type = "None"
         THEN /\ PoolDeliver(frame.echo)
              /\ UNCHANGED message_queue
         ELSE UNCHANGED <<message_queue, pool, waiter>>

MessageRecv ==
    /\ socketIn # <<>>
    /\ RecvRoute(Head(socketIn))
    /\ socketIn' = Tail(socketIn)
    /\ UNCHANGED <<callerPc, observed, wire, answered>>
    /\ UNCHANGED notPool

\* The gateway answers an action it received (possibly more than once).
GatewayAnswer(t) ==
    /\ t \in wire
    /\ answered[t] < MaxAnswers
    /\ Len(socketIn) < MaxSocket
    /\ answered' = [answered EXCEPT ![t] = @ + 1]
    /\ socketIn' = Append(socketIn, [post_type |-> "None", echo |-> t])
    /\ UNCHANGED <<callerPc, observed, wire, message_queue, pool, waiter>>
    /\ UNCHANGED notPool

\* The gateway pushes an event frame.
EventsPending == Len(message_queue) + SeqCount([i \in DOMAIN socketIn |-> socketIn[i].post_type], "message")

GatewayEvent ==
    /\ EventsPending < MaxEvents
    /\ Len(socketIn) < MaxSocket
    /\ socketIn' = Append(socketIn, [post_type |-> "message", echo |-> 0])
    /\ UNCHANGED <<callerPc, observed, wire, answered, message_queue, pool, waiter>>
    /\ UNCHANGED notPool

\* MessageHandler._get_forward_message, line 981: the action with its echo
\* token is written to the gateway socket (a suspension point).
GetForwardSend(c) ==
    /\ callerPc[c] = "idle"
    /\ callerPc' = [callerPc EXCEPT ![c] = "sent"]
    /\ wire' = wire \cup {c}
    /\ UNCHANGED <<observed, answered, socketIn, message_queue, pool, waiter>>
    /\ UNCHANGED notPool

\* line 981 raising (connection closed): caught at line 986, nothing was sent.
GetForwardSendFail(c) ==
    /\ callerPc[c] = "idle"
    /\ callerPc' = [callerPc EXCEPT ![c] = "failed"]
    /\ UNCHANGED <<observed, wire, answered, socketIn, message_queue, pool, waiter>>
    /\ UNCHANGED notPool

\* line 982: get_response(request_uuid) registers the waiter and suspends.
GetForwardAwait(c) ==
    /\ callerPc[c] = "sent"
    /\ callerPc' = [callerPc EXCEPT ![c] = "awaiting"]
    /\ PoolAwait(c)
    /\ UNCHANGED <<observed, wire, answered, socketIn, message_queue>>
    /\ UNCHANGED notPool

\* A buggy variant of the wake-up: a timeout is swallowed and the await is
\* retried instead of being reported.
GetForwardResumeRetry(c) ==
    /\ callerPc[c] = "awaiting"
    /\ waiter[c] # "pending"
    /\ IF waiter[c] = "timeout"
       THEN /\ callerPc' = [callerPc EXCEPT ![c] = "sent"]
            /\ waiter' = [waiter EXCEPT ![c] = "pending"]
            /\ UNCHANGED observed
       ELSE /\ callerPc' = [callerPc EXCEPT ![c] = "done"]
            /\ observed' = [observed EXCEPT ![c] = Append(@, waiter[c])]
            /\ UNCHANGED waiter
    /\ UNCHANGED <<wire, answered, socketIn, message_queue, pool>>
    /\ UNCHANGED notPool

\* lines 982-998: the coroutine is resumed by its waiter slot, either with
\* the response (returned to the caller) or with TimeoutError (line 983,
\* logged, None returned).
GetForwardResume(c) ==
    /\ callerPc[c] = "awaiting"
    /\ waiter[c] # "pending"
    /\ callerPc' = [callerPc EXCEPT ![c] = "done"]
    /\ observed' = [observed EXCEPT ![c] = Append(@, waiter[c])]
    /\ UNCHANGED <<wire, answered, socketIn, message_queue, pool, waiter>>
    /\ UNCHANGED notPool

PoolNext ==
    \/ \E c \in Callers : GetForwardSend(c)
    \/ \E c \in Callers : GetForwardSendFail(c)
    \/ \E c \in Callers : GetForwardAwait(c)
    \/ \E c \in Callers : GetForwardResume(c)
    \/ \E t \in Tokens : GatewayAnswer(t)
    \/ GatewayEvent
    \/ MessageRecv
    \/ PoolSweep
    \/ PoolTick

\* The event loop runs every ready task, time passes and the sweeper keeps
\* running; the gateway is under no obligation to answer.
PoolFairness ==
    /\ WF_vars(MessageRecv)
    /\ WF_vars(PoolSweep)
    /\ WF_vars(PoolTick)
    /\ \A c \in Callers : WF_vars(GetForwardAwait(c))
    /\ \A c \in Callers : WF_vars(GetForwardResume(c))

\* C1: every action sent with an echo token ends with exactly one observed
\* outcome, the response or a timeout: never two outcomes, never a finished
\* query without one, and a sent query eventually gets its outcome.
C1_ExactlyOneOutcome ==
    /\ [](\A c \in Callers :
            /\ Len(observed[c]) <= 1
            /\ Range(observed[c]) \subseteq {"response", "timeout"}
            /\ (callerPc[c] = "done" => Len(observed[c]) = 1))
    /\ \A c \in Callers :
            (callerPc[c] \in {"sent", "awaiting"}) ~> (Len(observed[c]) = 1)

\* C1 witness: one query got its response, the other one timed out although
\* the gateway had answered it (the answer arrived before the waiter was
\* registered, or twice).
C1_Witness ==
    \E c, d \in Callers :
        /\ observed[c] = <<"response">>
        /\ observed[d] = <<"timeout">>
        /\ answered[d] > 0

\* The reader is about to read a response frame (a frame without post_type).
ResponseAtHead == socketIn # <<>> /\ Head(socketIn).post_type = "None"

\* C27: the router cannot deadlock on its own queue.  The reader task hands
\* a frame without post_type straight to the Response Pool, never to
\* message_queue, so a handler that awaits a gateway response under the
\* router task is woken by it even while events wait in message_queue; and
\* every awaiting handler is eventually resumed, by the response or by the
\* timeout.
C27_ReaderFeedsPool ==
    /\ [][(ResponseAtHead /\ socketIn' = Tail(socketIn))
            => /\ message_queue' = message_queue
               /\ pool[Head(socketIn).echo].live
                     => /\ waiter'[Head(socketIn).echo] = "response"
                        /\ ~pool'[Head(socketIn).echo].live]_vars
    /\ \A c \in Callers : (callerPc[c] = "awaiting") ~> (callerPc[c] = "done")

\* C27 witness: the handler under the router task was resumed with its
\* response while an event frame still waits in message_queue.
C27_Witness ==
    /\ callerPc[1] = "done"
    /\ observed[1] = <<"response">>
    /\ message_queue # <<>>

\* napcat_with_restart, line 104: top of the loop.
LoopClear ==
    /\ procPc = "running"
    /\ loopPc = "clear"
    /\ restart_event' = FALSE
    /\ loopPc' = "bind"
    /\ UNCHANGED <<cfgAddr, busy, listener, wsServer, loopExit, cbPc, cbNew, reloads,
                   bindFailed, procPc, mainExc, pendingExit, exitCode>>
    /\ UNCHANGED notSup

\* napcat_server, lines 142-149, under napcat_with_restart, lines 105-111:
\* Server.serve binds the address of the live snapshot.  A bind on an address
\* in use raises OSError, re-raised at line 160 and caught by the
\* `except Exception` of line 109, which leaves the loop.
NapcatBind ==
    /\ procPc = "running"
    /\ loopPc = "bind"
    /\ IF cfgAddr \in busy
       THEN /\ bindFailed' = TRUE
            /\ loopPc' = "exited"
            /\ loopExit' = "exception"
            /\ UNCHANGED <<listener, wsServer>>
       ELSE /\ listener' = cfgAddr
            /\ wsServer' = "serving"
            /\ loopPc' = "serving"
            /\ UNCHANGED <<bindFailed, loopExit>>
    /\ UNCHANGED <<cfgAddr, busy, restart_event, cbPc, cbNew, reloads,
                   procPc, mainExc, pendingExit, exitCode>>
    /\ UNCHANGED notSup

\* napcat_server, lines 153-157, and napcat_with_restart, lines 106-108: once
\* the server has been closed, `await server.serve_forever()` ends.  asyncio's
\* Server.close cancels the serve_forever future, so the await raises
\* CancelledError (re-raised at line 157, caught at line 107: break); a server
\* whose serve_forever returns instead lets napcat_server return normally.
\* In both cases the `async with` of line 142 first awaits the closed server.
ServeForeverEnds ==
    /\ procPc = "running"
    /\ loopPc = "serving"
    /\ wsServer = "closed"
    /\ \/ /\ loopPc' = "exited"
          /\ loopExit' = "cancelled"
       \/ /\ loopPc' = "check"
          /\ UNCHANGED loopExit
    /\ UNCHANGED <<cfgAddr, busy, listener, wsServer, restart_event, cbPc, cbNew, reloads,
                   bindFailed, procPc, mainExc, pendingExit, exitCode>>
    /\ UNCHANGED notSup

\* napcat_with_restart, lines 114-117.
LoopCheck ==
    /\ procPc = "running"
    /\ loopPc = "check"
    /\ IF ~restart_event
       THEN /\ loopPc' = "exited"
            /\ loopExit' = "no_restart_event"
       ELSE /\ loopPc' = "sleep"
            /\ UNCHANGED loopExit
    /\ UNCHANGED <<cfgAddr, busy, listener, wsServer, restart_event, cbPc, cbNew, reloads,
                   bindFailed, procPc, mainExc, pendingExit, exitCode>>
    /\ UNCHANGED notSup

\* napcat_with_restart, line 118: sleep one second, then loop.
LoopSleep ==
    /\ procPc = "running"
    /\ loopPc = "sleep"
    /\ loopPc' = "clear"
    /\ UNCHANGED <<cfgAddr, busy, listener, wsServer, loopExit, restart_event, cbPc, cbNew,
                   reloads, bindFailed, procPc, mainExc, pendingExit, exitCode>>
    /\ UNCHANGED notSup

\* ConfigManager.reload, lines 58-64, calling on_napcat_config_change, lines
\* 63-79: the file now names another gateway address; the callback closes the
\* server main.websocket_server refers to (if any) and awaits wait_closed.
ReloadStart(new) ==
    /\ procPc = "running"
    /\ cbPc = "idle"
    /\ new # cfgAddr
    /\ reloads < MaxReloads
    /\ reloads' = reloads + 1
    /\ cbNew' = new
    /\ IF wsServer = "None"
       THEN /\ cbPc' = "set"
            /\ UNCHANGED wsServer
       ELSE /\ cbPc' = "wait_closed"
            /\ wsServer' = IF wsServer = "serving" THEN "closing" ELSE wsServer
    /\ UNCHANGED <<cfgAddr, busy, listener, loopPc, loopExit, restart_event,
                   bindFailed, procPc, mainExc, pendingExit, exitCode>>
    /\ UNCHANGED notSup

\* The closing server releases its socket and its connections; wait_closed
\* returns from then on.
ServerCloseCompletes ==
    /\ wsServer = "closing"
    /\ wsServer' = "closed"
    /\ listener' = 0
    /\ UNCHANGED <<cfgAddr, busy, loopPc, loopExit, restart_event, cbPc, cbNew, reloads,
                   bindFailed, procPc, mainExc, pendingExit, exitCode>>
    /\ UNCHANGED notSup

\* on_napcat_config_change, lines 79-80: wait_closed has returned.
CbWaitClosed ==
    /\ procPc = "running"
    /\ cbPc = "wait_closed"
    /\ wsServer = "closed"
    /\ cbPc' = "set"
    /\ UNCHANGED <<cfgAddr, busy, listener, wsServer, loopPc, loopExit, restart_event, cbNew,
                   reloads, bindFailed, procPc, mainExc, pendingExit, exitCode>>
    /\ UNCHANGED notSup

\* on_napcat_config_change, lines 85-93 (napcat_task is never assigned, so
\* nothing is cancelled), then ConfigManager.reload, line 66, which installs
\* the new snapshot without a suspension point in between.
CbSet ==
    /\ procPc = "running"
    /\ cbPc = "set"
    /\ restart_event' = TRUE
    /\ cfgAddr' = cbNew
    /\ cbPc' = "idle"
    /\ UNCHANGED <<busy, listener, wsServer, loopPc, loopExit, cbNew, reloads,
                   bindFailed, procPc, mainExc, pendingExit, exitCode>>
    /\ UNCHANGED notSup

\* __main__, lines 228-259: the except clause chosen for the exception that
\* ended run_until_complete(main()), as the status of the SystemExit it
\* raises (-1: the clause raises none).
MainExcept(exc) ==
    IF exc = "KeyboardInterrupt" THEN -1
    ELSE IF exc = "OSError" THEN 1
    ELSE 1

\* __main__, lines 260-284: the finally clause ends with sys.exit(0), and the
\* SystemExit it raises replaces the one in flight.
MainFinally(pending) == 0

\* main() ends with an exception: Ctrl-C, or an exception of one of the
\* gathered tasks (line 121); napcat_with_restart itself never raises.  The
\* except clause runs graceful_shutdown, which closes the server.
MainRaises(exc) ==
    /\ procPc = "running"
    /\ procPc' = "finally"
    /\ mainExc' = exc
    /\ pendingExit' = MainExcept(exc)
    /\ wsServer' = IF wsServer = "None" THEN "None" ELSE "closed"
    /\ listener' = 0
    /\ UNCHANGED <<cfgAddr, busy, loopPc, loopExit, restart_event, cbPc, cbNew, reloads,
                   bindFailed, exitCode>>
    /\ UNCHANGED notSup

ProcessExit ==
    /\ procPc = "finally"
    /\ procPc' = "exited"
    /\ exitCode' = MainFinally(pendingExit)
    /\ UNCHANGED <<cfgAddr, busy, listener, wsServer, loopPc, loopExit, restart_event, cbPc,
                   cbNew, reloads, bindFailed, mainExc, pendingExit>>
    /\ UNCHANGED notSup

SupNext ==
    \/ LoopClear
    \/ NapcatBind
    \/ ServeForeverEnds
    \/ LoopCheck
    \/ LoopSleep
    \/ \E new \in Addrs : ReloadStart(new)
    \/ ServerCloseCompletes
    \/ CbWaitClosed
    \/ CbSet
    \/ \E exc \in {"KeyboardInterrupt", "OSError", "Exception"} : MainRaises(exc)
    \/ ProcessExit

\* C2: after a reload that changed the gateway address, napcat_with_restart
\* restarts the listener and does not leave its loop (a bind failure and the
\* end of the process aside).
C2_RestartLoopSurvivesReload ==
    (reloads > 0 /\ ~bindFailed /\ procPc = "running") => loopPc # "exited"

\* C7: a process that hit a startup failure (the bind raised OSError, or
\* main() ended with an OSError or another exception) exits with status 1;
\* otherwise it exits with status 0.
C7_ExitCode ==
    procPc = "exited" =>
        exitCode = IF bindFailed \/ mainExc \in {"OSError", "Exception"} THEN 1 ELSE 0

(***************************************************************************)
(* NOTICE ENGINE: ban bookkeeping and the ban store                        *)
(***************************************************************************)
\* group_ban notices handled in one run.
MaxBanNotices == 2
\* The clock stops here.
MaxTime == 2
\* Longest ban duration of a notice, in seconds.
MaxDuration == 2

\* notice_handler.notice_queue / unsuccessful_notice_queue capacities.
NoticeQueueMax == 100
RetryQueueMax == 3

BanGroups == {1}
\* user_id 0 in a group_ban notice is the whole-group ban.
BanUsers == {0, 1, 2}
BanKeys == BanGroups \X BanUsers
NoBan == -2

BanUser(user_id, group_id, lift_time) ==
    [user_id |-> user_id, group_id |-> group_id, lift_time |-> lift_time]

BanInit ==
    /\ now = 0
    /\ banned_list = <<>>
    /\ lifted_list = <<>>
    /\ db = {}
    /\ inForce = [k \in BanKeys |-> NoBan]
    /\ banNotices = 0

BanIdle == BanInit

QueueInit ==
    /\ notice_queue = <<>>
    /\ unsuccessful_notice_queue = <<>>

QueueIdle == QueueInit

\* database.is_identical: same (group_id, user_id).
is_identical(a, b) == a.user_id = b.user_id /\ a.group_id = b.group_id

\* db_manager.create_ban_record: upsert identified by (group_id, user_id).
create_ban_record(store, rec) ==
    {r \in store : ~is_identical(r, rec)} \cup {rec}

\* db_manager.delete_ban_record: delete the record of (group_id, user_id).
delete_ban_record(store, rec) ==
    {r \in store : ~is_identical(r, rec)}

\* list.remove(x): drop the first element equal to x.
RECURSIVE ListRemove(_, _)
ListRemove(s, x) ==
    IF s = <<>> THEN <<>>
    ELSE IF Head(s) = x THEN Tail(s)
    ELSE <<Head(s)>> \o ListRemove(Tail(s), x)

\* NoticeHandler._ban_operation, lines 54-62, on the in-memory list: the loop
\* replaces the first record identical to the new one, else appends.
RECURSIVE BanListUpsert(_, _, _)
BanListUpsert(list, i, rec) ==
    IF i > Len(list) THEN Append(list, rec)
    ELSE IF is_identical(list[i], rec) THEN Append(ListRemove(list, list[i]), rec)
    ELSE BanListUpsert(list, i + 1, rec)

\* A variant of put_notice without the capacity test.
put_notice_unchecked(q, retry, message_base) == Append(q, message_base)

\* NoticeHandler.put_notice, lines 738-741.
put_notice(q, retry, message_base) ==
    IF Len(q) >= NoticeQueueMax \/ Len(retry) >= RetryQueueMax
    THEN q
    ELSE Append(q, message_base)

Notice(sub_type, group_id, user_id, operator) ==
    [id |-> 0, sub_type |-> sub_type, group_id |-> group_id, user_id |-> user_id,
     operator |-> operator]

\* handle_notice, lines 116-124 and 175-214, with handle_ban_notify, lines
\* 637-669: a group_ban.ban notice for (group_id, user_id) with a duration.
\* user_id 0 is the whole-group ban (_ban_operation without user and lift
\* time: user 0, lift_time -1).  A notice the filter gate rejects (line 120)
\* is dropped.
BanNotify(group_id, user_id, duration, allowed) ==
    /\ banNotices < MaxBanNotices
    /\ banNotices' = banNotices + 1
    /\ IF ~allowed
       THEN UNCHANGED <<banned_list, db, inForce, notice_queue>>
       ELSE LET lift == IF user_id = 0 THEN -1 ELSE now + duration
                rec == BanUser(user_id, group_id, lift)
            IN  /\ banned_list' = BanListUpsert(banned_list, 1, rec)
                /\ db' = create_ban_record(db, rec)
                /\ inForce' = [inForce EXCEPT ![<<group_id, user_id>>] = lift]
                /\ notice_queue' = put_notice(notice_queue, unsuccessful_notice_queue,
                                     Notice(IF user_id = 0 THEN "whole_ban" ELSE "ban",
                                            group_id, user_id, "operator"))
    /\ UNCHANGED <<now, lifted_list, unsuccessful_notice_queue>>
    /\ UNCHANGED notBan

\* handle_notice, lines 125-130 and 175-214, with handle_lift_ban_notify,
\* lines 704-732, and _lift_operation, lines 68-72: a group_ban.lift_ban
\* notice.  The record goes to lifted_list and is deleted from the store;
\* banned_list is left alone.
LiftBanNotify(group_id, user_id, allowed) ==
    /\ banNotices < MaxBanNotices
    /\ banNotices' = banNotices + 1
    /\ IF ~allowed
       THEN UNCHANGED <<lifted_list, db, inForce, notice_queue>>
       ELSE LET rec == BanUser(user_id, group_id, -1)
            IN  /\ lifted_list' = Append(lifted_list, rec)
                /\ db' = delete_ban_record(db, rec)
                /\ inForce' = [inForce EXCEPT ![<<group_id, user_id>>] = NoBan]
                /\ notice_queue' = put_notice(notice_queue, unsuccessful_notice_queue,
                                     Notice(IF user_id = 0 THEN "whole_lift_ban" ELSE "lift_ban",
                                            group_id, user_id, "operator"))
    /\ UNCHANGED <<now, banned_list, unsuccessful_notice_queue>>
    /\ UNCHANGED notBan

\* A lift time that is reached only after the reading of the clock.
LiftDueLater(lift_time, time) == lift_time < time

\* auto_lift_detect, line 840: ban_record.lift_time <= int(time.time()).
LiftDue(lift_time, time) == lift_time <= time

\* NoticeHandler.auto_lift_detect, lines 837-844: one pass of the for loop
\* over banned_list.  The loop removes from the list it iterates, so after a
\* removal at index i the iterator continues at index i + 1 of the shortened
\* list.  Returns the lists <<banned, lifted>> after the pass.
RECURSIVE LiftScan(_, _, _)
LiftScan(banned, lifted, i) ==
    IF i > Len(banned) THEN <<banned, lifted>>
    ELSE LET r == banned[i]
         IN  IF r.user_id = 0 \/ r.lift_time = -1 THEN LiftScan(banned, lifted, i + 1)
             ELSE IF LiftDue(r.lift_time, now)
                  THEN LiftScan(ListRemove(banned, r), Append(lifted, r), i + 1)
                  ELSE LiftScan(banned, lifted, i + 1)

\* The bans a pass ends naturally: the history forgets the ban in force of
\* every record the pass moved to lifted_list.
NaturallyLifted(before, after) ==
    {<<r.group_id, r.user_id>> : r \in {x \in Range(before) : x \notin Range(after)}}

AutoLiftDetect ==
    /\ banned_list # <<>>
    /\ LET res == LiftScan(banned_list, lifted_list, 1)
       IN  /\ res[1] # banned_list
           /\ banned_list' = res[1]
           /\ lifted_list' = res[2]
           /\ inForce' = [k \in BanKeys |->
                            IF k \in NaturallyLifted(banned_list, res[1])
                            THEN NoBan ELSE inForce[k]]
    /\ UNCHANGED <<now, db, banNotices, notice_queue, unsuccessful_notice_queue>>
    /\ UNCHANGED notBan

\* NoticeHandler.handle_natural_lift, lines 745-792: pop the last record of
\* lifted_list, delete it from the store, synthesize the lift_ban notice
\* without operator (natural_lift, lines 796-830) and enqueue it.
HandleNaturalLift ==
    /\ lifted_list # <<>>
    /\ LET lift_record == lifted_list[Len(lifted_list)]
       IN  /\ lifted_list' = SubSeq(lifted_list, 1, Len(lifted_list) - 1)
           /\ db' = delete_ban_record(db, lift_record)
           /\ notice_queue' = put_notice(notice_queue, unsuccessful_notice_queue,
                                Notice(IF lift_record.user_id = 0 THEN "whole_lift_ban" ELSE "lift_ban",
                                       lift_record.group_id, lift_record.user_id, "None"))
    /\ UNCHANGED <<now, banned_list, inForce, banNotices, unsuccessful_notice_queue>>
    /\ UNCHANGED notBan

\* A second passes.
ClockTick ==
    /\ now < MaxTime
    /\ now' = now + 1
    /\ UNCHANGED <<banned_list, lifted_list, db, inForce, banNotices,
                   notice_queue, unsuccessful_notice_queue>>
    /\ UNCHANGED notBan

BanNext ==
    \/ \E g \in BanGroups, u \in BanUsers, d \in 1..MaxDuration, a \in BOOLEAN :
           BanNotify(g, u, d, a)
    \/ \E g \in BanGroups, u \in BanUsers, a \in BOOLEAN : LiftBanNotify(g, u, a)
    \/ AutoLiftDetect
    \/ HandleNaturalLift
    \/ ClockTick

\* C3: from a processed ban notice for (G, U) until the matching lift_ban
\* notice or the natural lift of that ban, the ban store holds the record
\* (G, U, lift_time) of that ban.
C3_StoreHoldsBanInForce ==
    \A k \in BanKeys :
        inForce[k] # NoBan => BanUser(k[2], k[1], inForce[k]) \in db

\* auto_lift_detect and handle_natural_lift are tasks of the event loop that
\* loop forever with a sleep (lines 833-845 and 744-794): each runs again
\* whenever it has work.
BanFairness == WF_vars(AutoLiftDetect) /\ WF_vars(HandleNaturalLift)

\* The finite bans of single users whose lift time the clock can reach.
FiniteBans ==
    {BanUser(u, g, l) : u \in BanUsers \ {0}, g \in BanGroups, l \in 1..MaxTime}

\* A later ban of the same (group, user) has replaced the record.
BannedAgain(rec) ==
    \E r \in Range(banned_list) : is_identical(r, rec) /\ r.lift_time > rec.lift_time

\* The synthesized notice of handle_natural_lift: no operator (user_info
\* None), sub_type lift_ban, lifted_user_info.user_id the record's user.
NaturalNotice(rec) == Notice("lift_ban", rec.group_id, rec.user_id, "None")

\* The tracked record of a finite ban whose lift time has passed leaves
\* banned_list and lifted_list, unless the user is banned again.
NaturalLiftHappens ==
    \A rec \in FiniteBans :
        (rec \in Range(banned_list) /\ now >= rec.lift_time)
            ~> (\/ rec \notin Range(banned_list) /\ rec \notin Range(lifted_list)
                \/ BannedAgain(rec))

\* A record of a finite ban leaves lifted_list only with its synthesized
\* notice appended to notice_queue.
NaturalLiftEnqueues ==
    [][\A rec \in FiniteBans :
          (rec \in Range(lifted_list) /\ rec \notin Range(lifted_list'))
              => notice_queue' = Append(notice_queue, NaturalNotice(rec))]_vars

\* A whole-group record (user 0, lift_time -1) never leaves banned_list.
WholeBanStays ==
    [][\A r \in Range(banned_list) :
          (r.user_id = 0 \/ r.lift_time = -1) => r \in Range(banned_list')]_vars

IsBanOf(n, k) == n.sub_type = "ban" /\ n.group_id = k[1] /\ n.user_id = k[2]
IsExplicitLiftOf(n, k) ==
    n.sub_type = "lift_ban" /\ n.group_id = k[1] /\ n.user_id = k[2] /\ n.operator = "operator"
IsNaturalLiftOf(n, k) ==
    n.sub_type = "lift_ban" /\ n.group_id = k[1] /\ n.user_id = k[2] /\ n.operator = "None"

\* C26: a ban ended by an explicit lift_ban is no longer tracked in
\* banned_list, and no synthesized lift notice follows the explicit one
\* unless the user was banned again in between.
C26_ExplicitLiftNotifiedOnce ==
    \A k \in BanKeys :
        k[2] # 0 =>
            /\ inForce[k] = NoBan =>
                  ~\E r \in Range(banned_list) : r.group_id = k[1] /\ r.user_id = k[2]
            /\ \A i, j \in DOMAIN notice_queue :
                  (i < j /\ IsExplicitLiftOf(notice_queue[i], k)
                         /\ IsNaturalLiftOf(notice_queue[j], k))
                      => \E b \in (i + 1)..(j - 1) : IsBanOf(notice_queue[b], k)

(***************************************************************************)
(* CORE SESSION: message_send and its size guard                           *)
(***************************************************************************)
\* Characters of one class an envelope text holds beyond its base length.
MaxExtra == 2

\* message_sending.MAX_MESSAGE_SIZE_BYTES.
MAX_MESSAGE_SIZE_BYTES == 95 * 1024 * 1024

\* Bytes of the JSON of an envelope around its text (keys, braces, quotes).
EnvelopeOverhead == 64

\* json.dumps(msg_dict, ensure_ascii=False).encode('utf-8'), lines 32-34: the
\* text is written as it is, so a character takes 1 byte (ASCII), 3 bytes
\* (CJK) or 4 bytes (emoji); the envelope structure adds its overhead.
SerializedSize(env) ==
    EnvelopeOverhead + env.ascii + 3 * env.cjk + 4 * env.emoji

\* Base lengths of the ASCII part: short, just over 1 MiB, and the lengths
\* that put the serialized size right below the limit.
BaseAscii == {0, 1024 * 1024, MAX_MESSAGE_SIZE_BYTES - EnvelopeOverhead - 4}

Envelopes ==
    [ascii : {b + x : b \in BaseAscii, x \in 0..MaxExtra},
     cjk : 0..MaxExtra,
     emoji : 0..1]

RouterStatuses == {"true", "false", "raise"}

\* The notices and chat messages the other subsystems send are short.
SmallEnvelope == [ascii |-> 0, cjk |-> 0, emoji |-> 0]

SendInit ==
    /\ envelope \in Envelopes
    /\ routerStatus \in RouterStatuses
    /\ sendPc = "call"
    /\ routerGot = <<>>
    /\ sendReturn = FALSE

SendIdle ==
    /\ envelope = SmallEnvelope
    /\ routerStatus = "true"
    /\ sendPc = "call"
    /\ routerGot = <<>>
    /\ sendReturn = FALSE

\* A variant of the guard that also drops an envelope of exactly the limit.
OverLimitInclusive(size) == size >= MAX_MESSAGE_SIZE_BYTES

\* MessageSending.message_send, line 41.
OverLimit(size) == size > MAX_MESSAGE_SIZE_BYTES

\* MessageSending.message_send, lines 30-64, as a function of the envelope
\* and of what the router does: whether the router was handed the envelope,
\* and the value returned.  A false send status raises RuntimeError (line
\* 58); every exception is caught at line 61 and gives False.
message_send(env, status) ==
    IF OverLimit(SerializedSize(env))
    THEN [handed |-> FALSE, return |-> FALSE]
    ELSE [handed |-> TRUE, return |-> (status = "true")]

MessageSend ==
    /\ sendPc = "call"
    /\ LET r == message_send(envelope, routerStatus)
       IN  /\ routerGot' = IF r.handed THEN Append(routerGot, SerializedSize(envelope))
                                       ELSE routerGot
           /\ sendReturn' = r.return
    /\ sendPc' = "returned"
    /\ UNCHANGED <<envelope, routerStatus>>
    /\ UNCHANGED notSend

\* The next envelope arrives.
NextEnvelope ==
    /\ sendPc = "returned"
    /\ Len(routerGot) < 2
    /\ envelope' \in Envelopes
    /\ routerStatus' \in RouterStatuses
    /\ sendPc' = "call"
    /\ UNCHANGED <<routerGot, sendReturn>>
    /\ UNCHANGED notSend

SendNext ==
    \/ MessageSend
    \/ NextEnvelope

\* C6: message_send hands an envelope to the router iff its serialized size
\* is at most 95 MiB; a larger envelope is never handed over and message_send
\* returns False for it.
C6_SizeGuard ==
    /\ [](\A i \in DOMAIN routerGot : routerGot[i] <= 95 * 1024 * 1024)
    /\ [][sendPc = "call" =>
            /\ (Len(routerGot') = Len(routerGot) + 1)
                   <=> (SerializedSize(envelope) <= 95 * 1024 * 1024)
            /\ (SerializedSize(envelope) > 95 * 1024 * 1024 => sendReturn' = FALSE)]_vars

\* C6 witness: an envelope of exactly 95 MiB has been handed to the router
\* and a larger one has just been dropped.
C6_Witness ==
    /\ \E i \in DOMAIN routerGot : routerGot[i] = 95 * 1024 * 1024
    /\ sendPc = "returned"
    /\ SerializedSize(envelope) > 95 * 1024 * 1024
    /\ sendReturn = FALSE

(***************************************************************************)
(* NOTICE ENGINE: delivery queues and the send_notice dispatchers          *)
(***************************************************************************)
\* Gateway connections accepted in one run; each one runs
\* set_server_connection, which starts a send_notice task.
MaxConnections == 2
\* Notices produced in one run.
MaxNotices == 3

Dispatchers == 1..MaxConnections
NoMsg == [id |-> 0]

NoticeWithId(n) ==
    [id |-> n, sub_type |-> "ban", group_id |-> 1, user_id |-> 1, operator |-> "operator"]

DispInit ==
    /\ connections = 0
    /\ dispPc = [d \in Dispatchers |-> "off"]
    /\ held = [d \in Dispatchers |-> NoMsg]
    /\ accepted = {}
    /\ nextNoticeId = 1
    /\ sentLog = <<>>

DispIdle == DispInit

\* main.message_recv, line 23, and NoticeHandler.set_server_connection, lines
\* 36-44: every accepted gateway connection starts another send_notice task.
NewConnection ==
    /\ connections < MaxConnections
    /\ connections' = connections + 1
    /\ dispPc' = [dispPc EXCEPT ![connections + 1] = "top"]
    /\ UNCHANGED <<held, accepted, nextNoticeId, sentLog, queueVars>>
    /\ UNCHANGED notDisp

\* handle_notice, line 214, or handle_natural_lift, line 791: a handler calls
\* put_notice with the next notice.
PutNotice ==
    /\ connections > 0
    /\ nextNoticeId <= MaxNotices
    /\ LET m == NoticeWithId(nextNoticeId)
           q == put_notice(notice_queue, unsuccessful_notice_queue, m)
       IN  /\ notice_queue' = q
           /\ accepted' = IF q # notice_queue THEN accepted \cup {m.id} ELSE accepted
    /\ nextNoticeId' = nextNoticeId + 1
    /\ UNCHANGED <<connections, dispPc, held, sentLog, unsuccessful_notice_queue>>
    /\ UNCHANGED notDisp

\* send_notice, lines 852-853 and 865: the top of the loop.  A non-empty
\* retry queue is served first; else the head of the primary queue is taken,
\* and with both queues empty the task blocks in notice_queue.get().
DispTop(d) ==
    /\ dispPc[d] = "top"
    /\ IF unsuccessful_notice_queue # <<>>
       THEN /\ held' = [held EXCEPT ![d] = Head(unsuccessful_notice_queue)]
            /\ unsuccessful_notice_queue' = Tail(unsuccessful_notice_queue)
            /\ dispPc' = [dispPc EXCEPT ![d] = "send"]
            /\ UNCHANGED notice_queue
       ELSE IF notice_queue # <<>>
            THEN /\ held' = [held EXCEPT ![d] = Head(notice_queue)]
                 /\ notice_queue' = Tail(notice_queue)
                 /\ dispPc' = [dispPc EXCEPT ![d] = "send"]
                 /\ UNCHANGED unsuccessful_notice_queue
            ELSE /\ dispPc' = [dispPc EXCEPT ![d] = "get"]
                 /\ UNCHANGED <<held, notice_queue, unsuccessful_notice_queue>>
    /\ UNCHANGED <<connections, accepted, nextNoticeId, sentLog>>
    /\ UNCHANGED notDisp

\* send_notice, line 865: a task blocked in notice_queue.get() is resumed with
\* the head of the primary queue.
DispGet(d) ==
    /\ dispPc[d] = "get"
    /\ notice_queue # <<>>
    /\ held' = [held EXCEPT ![d] = Head(notice_queue)]
    /\ notice_queue' = Tail(notice_queue)
    /\ dispPc' = [dispPc EXCEPT ![d] = "send"]
    /\ UNCHANGED <<connections, accepted, nextNoticeId, sentLog, unsuccessful_notice_queue>>
    /\ UNCHANGED notDisp

\* send_notice, lines 855-857 and 867-869: message_send returned True.
SendOk(d) ==
    /\ dispPc[d] = "send"
    /\ message_send(SmallEnvelope, "true").return
    /\ sentLog' = Append(sentLog, held[d].id)
    /\ held' = [held EXCEPT ![d] = NoMsg]
    /\ dispPc' = [dispPc EXCEPT ![d] = "sleep"]
    /\ UNCHANGED <<connections, accepted, nextNoticeId, queueVars>>
    /\ UNCHANGED notDisp

\* A variant of the failure path that forgets the notice instead of putting
\* it on the retry queue.
RequeueDropped(d, retry) == retry

\* send_notice, lines 859 and 871: unsuccessful_notice_queue.put(to_be_send).
Requeue(d, retry) == Append(retry, held[d])

\* send_notice, lines 858-862 and 870-874: message_send returned False (or
\* raised); the notice goes to the retry queue.  put() on a full queue blocks.
SendFail(d, status) ==
    /\ dispPc[d] = "send"
    /\ ~message_send(SmallEnvelope, status).return
    /\ IF Len(unsuccessful_notice_queue) < RetryQueueMax
       THEN /\ unsuccessful_notice_queue' = Requeue(d, unsuccessful_notice_queue)
            /\ held' = [held EXCEPT ![d] = NoMsg]
            /\ dispPc' = [dispPc EXCEPT ![d] = "sleep"]
       ELSE /\ dispPc' = [dispPc EXCEPT ![d] = "put"]
            /\ UNCHANGED <<held, unsuccessful_notice_queue>>
    /\ UNCHANGED <<connections, accepted, nextNoticeId, sentLog, notice_queue>>
    /\ UNCHANGED notDisp

\* send_notice, lines 863-864 and 875: the sleep ends (or the blocked put()
\* gets its slot, and the sleep starts).
DispResume(d) ==
    /\ \/ /\ dispPc[d] = "sleep"
          /\ dispPc' = [dispPc EXCEPT ![d] = "top"]
          /\ UNCHANGED <<held, unsuccessful_notice_queue>>
       \/ /\ dispPc[d] = "put"
          /\ Len(unsuccessful_notice_queue) < RetryQueueMax
          /\ unsuccessful_notice_queue' = Requeue(d, unsuccessful_notice_queue)
          /\ held' = [held EXCEPT ![d] = NoMsg]
          /\ dispPc' = [dispPc EXCEPT ![d] = "sleep"]
    /\ UNCHANGED <<connections, accepted, nextNoticeId, sentLog, notice_queue>>
    /\ UNCHANGED notDisp

DispNext ==
    \/ NewConnection
    \/ PutNotice
    \/ \E d \in Dispatchers : DispTop(d)
    \/ \E d \in Dispatchers : DispGet(d)
    \/ \E d \in Dispatchers : SendOk(d)
    \/ \E d \in Dispatchers, st \in {"false", "raise"} : SendFail(d, st)
    \/ \E d \in Dispatchers : DispResume(d)

\* The event loop runs every ready task, and a notice that is sent again and
\* again is eventually sent successfully.
DispFairness ==
    /\ \A d \in Dispatchers :
          WF_vars(DispTop(d) \/ DispGet(d) \/ DispResume(d) \/ SendOk(d)
                  \/ \E st \in {"false", "raise"} : SendFail(d, st))
    /\ \A n \in 1..MaxNotices :
          SF_vars(\E d \in Dispatchers : SendOk(d) /\ held[d].id = n)

IdsIn(q) == {q[i].id : i \in DOMAIN q}
HeldIds == {held[d].id : d \in Dispatchers} \ {0}

\* C4: a notice put_notice accepted is never discarded by the dispatcher (it
\* is in the primary queue, in the retry queue, in the hands of a dispatcher
\* or received by Core), and it is eventually received by Core.
C4_AtLeastOnce ==
    /\ [](\A n \in accepted :
            n \in IdsIn(notice_queue) \cup IdsIn(unsuccessful_notice_queue)
                  \cup HeldIds \cup Range(sentLog))
    /\ \A n \in 1..MaxNotices : (n \in accepted) ~> (n \in Range(sentLog))

\* C4 witness: a notice failed, waited in the retry queue and then reached
\* Core while another one is still queued.
C4_Witness ==
    /\ 1 \in Range(sentLog)
    /\ unsuccessful_notice_queue # <<>>
    /\ notice_queue # <<>>

\* C5: Core receives the notices in the order put_notice accepted them.
C5_EnqueueOrder ==
    \A i, j \in DOMAIN sentLog : i < j => sentLog[i] < sentLog[j]

\* The send_notice tasks that were started and have not ended (the loop of
\* send_notice, lines 850-875, has no exit).
RunningSendNotice == {d \in Dispatchers : dispPc[d] # "off"}

\* C25: at most one send_notice task is running, however many gateway
\* connections were accepted, so two delivery dispatchers never consume the
\* queues concurrently.
C25_OneDispatcher == Cardinality(RunningSendNotice) <= 1

(***************************************************************************)
(* GATEWAY AUTHENTICATION                                                  *)
(***************************************************************************)
\* Longest token (and longest credential after the scheme) that is drawn.
MaxTokenLen == 2
\* Frames a client sends on one connection.
MaxFrames == 2

\* Strings are sequences of characters of a small alphabet; an optional
\* string is a record, None is the absent one.
TokenChars == {"a", "b", " "}
None == [some |-> FALSE, val |-> <<>>]
Some(str) == [some |-> TRUE, val |-> str]

StrUpTo(n) == UNION {[1..k -> TokenChars] : k \in 0..n}

\* The literal "Bearer " of the f-string at main.py line 128.
BearerScheme == <<"B", "e", "a", "r", "e", "r", " ">>

\* What a client may put in front of its credential.
ClientSchemes == {BearerScheme, <<"b", "e", "a", "r", "e", "r", " ">>,
                  <<"B", "e", "a", "r", "e", "r">>, <<>>}

ConfigTokens == {None} \cup {Some(str) : str \in StrUpTo(MaxTokenLen)}
ClientHeaders ==
    {None} \cup {Some(sch \o str) : sch \in ClientSchemes, str \in StrUpTo(MaxTokenLen)}

\* str.strip(): leading and trailing whitespace removed.
RECURSIVE lstrip(_)
lstrip(str) ==
    IF str # <<>> /\ Head(str) = " " THEN lstrip(Tail(str)) ELSE str

RECURSIVE rstrip(_)
rstrip(str) ==
    IF str # <<>> /\ str[Len(str)] = " " THEN rstrip(SubSeq(str, 1, Len(str) - 1)) ELSE str

strip(str) == rstrip(lstrip(str))

\* Python truthiness of an optional string: None and "" are falsy.
Truthy(opt) == opt.some /\ opt.val # <<>>

\* A variant of the header comparison that looks at the credential only and
\* ignores what precedes it.
HeaderMismatchCredentialOnly(auth_header, tok) ==
    \/ ~auth_header.some
    \/ Len(auth_header.val) < Len(tok.val)
    \/ SubSeq(auth_header.val, Len(auth_header.val) - Len(tok.val) + 1,
              Len(auth_header.val)) # tok.val

\* main.py line 128: auth_header != f"Bearer {token}".
HeaderMismatch(auth_header, tok) == auth_header # Some(BearerScheme \o tok.val)

\* main.py lines 123-134: None lets the handshake go on, 401 rejects it.
check_napcat_server_token(tok, auth_header) ==
    IF ~Truthy(tok) \/ strip(tok.val) = <<>>
    THEN "None"
    ELSE IF HeaderMismatch(auth_header, tok) THEN "401" ELSE "None"

AuthInit ==
    /\ token \in ConfigTokens
    /\ connHeader = None
    /\ connStatus = "none"
    /\ framesSent = 0
    /\ framesProcessed = 0

AuthIdle ==
    /\ token = None
    /\ connHeader = None
    /\ connStatus = "none"
    /\ framesSent = 0
    /\ framesProcessed = 0

\* napcat_server, lines 142-148: a client opens a connection; the server
\* runs process_request on the handshake request, and starts message_recv
\* for the connection only when it returned None.
ProcessRequest(auth_header) ==
    /\ connStatus = "none"
    /\ connHeader' = auth_header
    /\ connStatus' = IF check_napcat_server_token(token, auth_header) = "None"
                     THEN "accepted"
                     ELSE "401"
    /\ UNCHANGED <<token, framesSent, framesProcessed>>
    /\ UNCHANGED notAuth

\* The client of the current connection attempt writes a frame, whether its
\* handshake was accepted or not.
ClientSend ==
    /\ connStatus # "none"
    /\ framesSent < MaxFrames
    /\ framesSent' = framesSent + 1
    /\ UNCHANGED <<token, connHeader, connStatus, framesProcessed>>
    /\ UNCHANGED notAuth

\* message_recv, lines 24-30: the handler of an accepted connection reads
\* the next frame.
MessageRecvFrame ==
    /\ connStatus = "accepted"
    /\ framesProcessed < framesSent
    /\ framesProcessed' = framesProcessed + 1
    /\ UNCHANGED <<token, connHeader, connStatus, framesSent>>
    /\ UNCHANGED notAuth

\* The connection ends; the next client may connect.
ConnectionClosed ==
    /\ connStatus # "none"
    /\ connStatus' = "none"
    /\ connHeader' = None
    /\ framesSent' = 0
    /\ framesProcessed' = 0
    /\ UNCHANGED token
    /\ UNCHANGED notAuth

AuthNext ==
    \/ \E auth_header \in ClientHeaders : ProcessRequest(auth_header)
    \/ ClientSend
    \/ MessageRecvFrame
    \/ ConnectionClosed

\* A token is blank when it has no character other than whitespace.
NonBlank(opt) == opt.some /\ \E i \in DOMAIN opt.val : opt.val[i] # " "

\* C8: with a non-blank token a connection is accepted exactly when its
\* Authorization header is "Bearer <token>", every other one gets 401 and
\* none of its frames is processed; with no token or a blank one every
\* connection is accepted.
C8_GatewayAuth ==
    connStatus # "none" =>
        IF NonBlank(token)
        THEN /\ connStatus = "accepted" <=> connHeader = Some(BearerScheme \o token.val)
             /\ connStatus # "accepted" => (connStatus = "401" /\ framesProcessed = 0)
        ELSE connStatus = "accepted"

\* C8 witness: a non-blank token, a client whose header carries the right
\* credential without the scheme was answered 401 and has sent frames.
C8_Witness ==
    /\ NonBlank(token)
    /\ connHeader = Some(token.val)
    /\ connStatus = "401"
    /\ framesSent = MaxFrames

(***************************************************************************)
(* INBOUND FILTER GATE                                                     *)
(***************************************************************************)
FilterGroups == {1, 2}
FilterUsers == {1, 2}
\* group_id=None of a private message (falsy in check_allow_to_chat).
NoGroup == 0

ListTypes == {"whitelist", "blacklist"}

ChatConfigs ==
    [group_list_type : ListTypes, group_list : SUBSET FilterGroups,
     private_list_type : ListTypes, private_list : SUBSET FilterUsers,
     ban_user_id : SUBSET FilterUsers, ban_qq_bot : BOOLEAN]

\* The chat messages the gateway delivers: private ones (no group_id) and
\* group ones, each with its sub_type and a message array that may be empty.
RawMessages ==
    [message_type : {"private"}, sub_type : {"friend", "group", "other"},
     user_id : FilterUsers, group_id : {NoGroup}, message : {"empty", "segments"}]
    \cup
    [message_type : {"group"}, sub_type : {"normal", "anonymous"},
     user_id : FilterUsers, group_id : FilterGroups, message : {"empty", "segments"}]

NoRaw == [message_type |-> "none"]
NoEnvelope == [user_id |-> 0]

\* What get_member_info answers: nothing, a dict without is_robot, or a dict
\* with is_robot true or false.
MemberInfos == {"none", "no_is_robot", "robot", "human"}

FilterInit ==
    /\ chat \in ChatConfigs
    /\ bot_id_list = [u \in FilterUsers |-> "unset"]
    /\ filterPc = "idle"
    /\ lastRaw = NoRaw
    /\ effects = <<>>
    /\ coreEnvelope = NoEnvelope

FilterIdle ==
    /\ chat = [group_list_type |-> "whitelist", group_list |-> {},
               private_list_type |-> "whitelist", private_list |-> {},
               ban_user_id |-> {}, ban_qq_bot |-> FALSE]
    /\ bot_id_list = [u \in FilterUsers |-> "unset"]
    /\ filterPc = "idle"
    /\ lastRaw = NoRaw
    /\ effects = <<>>
    /\ coreEnvelope = NoEnvelope

\* check_allow_to_chat, lines 65-71: the group list.
GroupListDenies(group_id) ==
    \/ chat.group_list_type = "whitelist" /\ group_id \notin chat.group_list
    \/ chat.group_list_type = "blacklist" /\ group_id \in chat.group_list

\* check_allow_to_chat, lines 72-78: the private list.
PrivateListDenies(user_id) ==
    \/ chat.private_list_type = "whitelist" /\ user_id \notin chat.private_list
    \/ chat.private_list_type = "blacklist" /\ user_id \in chat.private_list

\* A variant of the global-blacklist test that never denies.
GlobalListNeverDenies(user_id, ignore_global_list) == FALSE

\* check_allow_to_chat, lines 79-81: the global blacklist.
GlobalListDenies(user_id, ignore_global_list) ==
    user_id \in chat.ban_user_id /\ ~ignore_global_list

\* check_allow_to_chat, lines 45-98.  The result says whether the chat is
\* allowed, whether the member-info query was made, and the new value of
\* bot_id_list[user_id] ("keep" when it is not written).
check_allow_to_chat(user_id, group_id, ignore_bot, ignore_global_list, member_info) ==
    IF IF group_id # NoGroup THEN GroupListDenies(group_id) ELSE PrivateListDenies(user_id)
    THEN [allow |-> FALSE, queried |-> FALSE, bot |-> "keep"]
    ELSE IF GlobalListDenies(user_id, ignore_global_list)
    THEN [allow |-> FALSE, queried |-> FALSE, bot |-> "keep"]
    ELSE IF chat.ban_qq_bot /\ group_id # NoGroup /\ ~ignore_bot
    THEN CASE member_info = "robot" -> [allow |-> FALSE, queried |-> TRUE, bot |-> "TRUE"]
           [] member_info = "human" -> [allow |-> TRUE, queried |-> TRUE, bot |-> "FALSE"]
           [] OTHER -> [allow |-> TRUE, queried |-> TRUE, bot |-> "keep"]
    ELSE [allow |-> TRUE, queried |-> FALSE, bot |-> "keep"]

\* handle_raw_message, lines 100-247, for one raw message: the effects of
\* the call in order, and the envelope handed to the Core router.  The result
\* of the translation (handle_real_message) may be empty; the router may
\* return True, return False or raise.
handle_raw_message(raw, member_info, seg_message, status) ==
    LET supported == \/ raw.message_type = "private" /\ raw.sub_type = "friend"
                     \/ raw.message_type = "group" /\ raw.sub_type = "normal"
        gate == check_allow_to_chat(raw.user_id, raw.group_id, FALSE, FALSE, member_info)
        q1 == IF gate.queried THEN <<"get_member_info">> ELSE <<>>
        q2 == IF raw.message_type = "group" THEN q1 \o <<"get_group_info">> ELSE q1
        sent == message_send(SmallEnvelope, status)
    IN  IF ~supported
        THEN [effects |-> <<>>, bot |-> "keep", envelope |-> NoEnvelope]
        ELSE IF ~gate.allow
        THEN [effects |-> q1, bot |-> gate.bot, envelope |-> NoEnvelope]
        ELSE IF raw.message = "empty"
        THEN [effects |-> q2, bot |-> gate.bot, envelope |-> NoEnvelope]
        ELSE IF seg_message = "empty"
        THEN [effects |-> q2 \o <<"translate">>, bot |-> gate.bot, envelope |-> NoEnvelope]
        ELSE [effects |-> q2 \o <<"translate", "send">>, bot |-> gate.bot,
              envelope |-> IF sent.handed
                           THEN [user_id |-> raw.user_id, group_id |-> raw.group_id]
                           ELSE NoEnvelope]

\* main.message_recv, lines 24-28: a chat message of the gateway is put on
\* message_queue.
MessageRecvChat(raw) ==
    /\ filterPc = "idle"
    /\ filterPc' = "queued"
    /\ lastRaw' = raw
    /\ effects' = <<>>
    /\ coreEnvelope' = NoEnvelope
    /\ UNCHANGED <<chat, bot_id_list>>
    /\ UNCHANGED notFilter

\* main.message_process, lines 39-52: the chat message is taken from the
\* queue and handled to the end before the next one is taken.
HandleRawMessage(member_info, seg_message, status) ==
    /\ filterPc = "queued"
    /\ LET out == handle_raw_message(lastRaw, member_info, seg_message, status)
       IN  /\ effects' = out.effects
           /\ coreEnvelope' = out.envelope
           /\ bot_id_list' = IF out.bot = "keep"
                             THEN bot_id_list
                             ELSE [bot_id_list EXCEPT ![lastRaw.user_id] = out.bot]
    /\ filterPc' = "idle"
    /\ UNCHANGED <<chat, lastRaw>>
    /\ UNCHANGED notFilter

FilterNext ==
    \/ \E raw \in RawMessages : MessageRecvChat(raw)
    \/ \E member_info \in MemberInfos, seg_message \in {"empty", "segments"},
          status \in RouterStatuses :
           HandleRawMessage(member_info, seg_message, status)

\* The message is one the claim says must not reach Core.
FilterDenied(raw) ==
    \/ /\ raw.message_type = "group"
       /\ \/ chat.group_list_type = "whitelist" /\ raw.group_id \notin chat.group_list
          \/ chat.group_list_type = "blacklist" /\ raw.group_id \in chat.group_list
    \/ /\ raw.message_type = "private"
       /\ \/ chat.private_list_type = "whitelist" /\ raw.user_id \notin chat.private_list
          \/ chat.private_list_type = "blacklist" /\ raw.user_id \in chat.private_list
    \/ raw.user_id \in chat.ban_user_id

\* C9: a group message of a group outside the whitelist or inside the
\* blacklist, a private message of a user outside the private whitelist or
\* inside the private blacklist, and any message of a user in ban_user_id is
\* neither translated nor sent: no envelope reaches Core.
C9_FilterGate ==
    (filterPc = "idle" /\ lastRaw # NoRaw /\ FilterDenied(lastRaw)) =>
        /\ coreEnvelope = NoEnvelope
        /\ "translate" \notin Range(effects)
        /\ "send" \notin Range(effects)

\* C9 witness: a normal group message with content, from a group the lists
\* allow but a sender in ban_user_id, was handled.
C9_Witness ==
    /\ filterPc = "idle"
    /\ lastRaw # NoRaw
    /\ lastRaw.message_type = "group"
    /\ lastRaw.sub_type = "normal"
    /\ lastRaw.message = "segments"
    /\ ~GroupListDenies(lastRaw.group_id)
    /\ lastRaw.user_id \in chat.ban_user_id
    /\ effects = <<>>

(***************************************************************************)
(* OUTBOUND TRANSLATION                                                    *)
(***************************************************************************)
\* Longest top-level segment list that is drawn.
MaxSegs == 3

\* A Seg is [type, data, items]: data is the string of a leaf segment, items
\* the children of a seglist or the messages of a forward.  A forwarded
\* message (MessageBase) has the same shape: type "item", data the nickname
\* of its user_info, items its one message_segment.
ReplySeg(id) == [type |-> "reply", data |-> id, items |-> <<>>]
TextSeg(text) == [type |-> "text", data |-> text, items |-> <<>>]
ImageSeg == [type |-> "image", data |-> "base64", items |-> <<>>]
IdSeg(id) == [type |-> "id", data |-> id, items |-> <<>>]
SeglistSeg(segs) == [type |-> "seglist", data |-> "", items |-> segs]
ForwardSeg(msgs) == [type |-> "forward", data |-> "", items |-> msgs]
ForwardItem(seg) == [type |-> "item", data |-> "nickname", items |-> <<seg>>]
VoiceSeg(encoded_voice) == [type |-> "voice", data |-> encoded_voice, items |-> <<>>]
VideoSeg(encoded_video) == [type |-> "video", data |-> encoded_video, items |-> <<>>]
MusicSeg(music_data) == [type |-> "music", data |-> music_data, items |-> <<>>]

\* Reply targets: two message ids and the id of a synthesized notice.
ReplyIds == {"m1", "m2", "notice"}

\* The segments a top-level list is drawn from.  "image" stands for every
\* type whose branch is build_payload(payload, handler(data), False).
TopSegs ==
    {ReplySeg(id) : id \in ReplyIds}
    \cup {TextSeg("hi"), TextSeg(""), ImageSeg}
    \cup {ForwardSeg(<<ForwardItem(IdSeg("m9"))>>),
          ForwardSeg(<<ForwardItem(SeglistSeg(<<TextSeg("hi"), ReplySeg("m2"),
                                                ForwardSeg(<<ForwardItem(IdSeg("m9"))>>)>>)),
                       ForwardItem(ReplySeg("m1"))>>),
          SeglistSeg(<<ReplySeg("m1")>>)}

SegTrees ==
    TopSegs \cup {SeglistSeg(segs) : segs \in UNION {[1..k -> TopSegs] : k \in 0..MaxSegs}}

\* Media segments: a voice and a video with and without data, a music
\* segment whose data is a song id (a str) and one whose data is neither a
\* str nor a dict ("unsupported" stands for it).
MediaSegs ==
    {VoiceSeg("base64"), VoiceSeg(""), VideoSeg("base64"), VideoSeg(""),
     MusicSeg("id"), MusicSeg("unsupported"), TextSeg("hi"), ReplySeg("m1")}

MediaTrees ==
    MediaSegs \cup {SeglistSeg(segs) : segs \in UNION {[1..k -> MediaSegs] : k \in 0..MaxSegs}}

\* A payload element is [type, data, content]; content is the payload of a
\* forward node.
Element(type, data) == [type |-> type, data |-> data, content |-> <<>>]

\* handle_reply_message, lines 109-111.
handle_reply_message(id) == Element("reply", id)

\* The dict without keys, `{}`, that a handler returns when it has no output.
EmptyDict == Element("{}", "")

\* handle_voice_message, lines 151-162.
handle_voice_message(encoded_voice) ==
    IF ~use_tts THEN EmptyDict
    ELSE IF encoded_voice = "" THEN EmptyDict
    ELSE Element("record", encoded_voice)

\* handle_music_message, lines 172-203, for a str and for data that is
\* neither a str nor a dict.
handle_music_message(music_data) ==
    IF music_data = "unsupported" THEN EmptyDict ELSE Element("music", music_data)

\* handle_video_message, lines 281-294.
handle_video_message(encoded_video) ==
    IF encoded_video = "" THEN EmptyDict ELSE Element("video", encoded_video)

RECURSIVE DropReplies(_)
DropReplies(list) ==
    IF list = <<>>
    THEN <<>>
    ELSE IF Head(list).type = "reply"
         THEN DropReplies(Tail(list))
         ELSE <<Head(list)>> \o DropReplies(Tail(list))

\* A variant of build_payload that puts a reply at the head and keeps the
\* replies that are already there.
build_payload_keep(list, addon, is_reply) ==
    IF is_reply THEN <<addon>> \o list ELSE Append(list, addon)

\* build_payload, lines 92-106.
build_payload(list, addon, is_reply) ==
    IF is_reply THEN <<addon>> \o DropReplies(list) ELSE Append(list, addon)

RECURSIVE process_seg_recursive(_, _)
RECURSIVE process_message_by_type(_, _, _)
RECURSIVE ProcessSegs(_, _, _)
RECURSIVE handle_forward_message(_)
RECURSIVE ForwardNodes(_)

\* handle_forward_message, lines 78-90.
handle_forward_message(item) ==
    LET message_segment == item.items[1]
    IN  IF message_segment.type = "id"
        THEN Element("node", message_segment.data)
        ELSE [type |-> "node", data |-> item.data,
              content |-> process_seg_recursive(message_segment, TRUE)]

\* process_message_by_type, lines 71-75: the list comprehension over the
\* forwarded messages.
ForwardNodes(msgs) ==
    IF msgs = <<>>
    THEN <<>>
    ELSE <<handle_forward_message(Head(msgs))>> \o ForwardNodes(Tail(msgs))

\* process_message_by_type, lines 27-76.
process_message_by_type(seg, list, in_forward) ==
    CASE seg.type = "reply" ->
            IF seg.data = "notice"
            THEN list
            ELSE build_payload(list, handle_reply_message(seg.data), TRUE)
      [] seg.type = "text" ->
            IF seg.data = ""
            THEN list
            ELSE build_payload(list, Element("text", seg.data), FALSE)
      [] seg.type = "image" -> build_payload(list, Element("image", seg.data), FALSE)
      [] seg.type = "voice" -> build_payload(list, handle_voice_message(seg.data), FALSE)
      [] seg.type = "music" -> build_payload(list, handle_music_message(seg.data), FALSE)
      [] seg.type = "video" -> build_payload(list, handle_video_message(seg.data), FALSE)
      [] seg.type = "forward" /\ ~in_forward -> ForwardNodes(seg.items)
      [] OTHER -> list

\* process_seg_recursive, lines 20-21: the loop over seg_data.data.
ProcessSegs(segs, list, in_forward) ==
    IF segs = <<>>
    THEN list
    ELSE ProcessSegs(Tail(segs), process_message_by_type(Head(segs), list, in_forward),
                     in_forward)

\* process_seg_recursive, lines 16-25.
process_seg_recursive(seg_data, in_forward) ==
    IF seg_data.type = "seglist"
    THEN IF seg_data.items = <<>> THEN <<>> ELSE ProcessSegs(seg_data.items, <<>>, in_forward)
    ELSE process_message_by_type(seg_data, <<>>, in_forward)

\* parse_seg_to_nc_format, lines 11-13.
parse_seg_to_nc_format(message_segment) == process_seg_recursive(message_segment, FALSE)

OutInit ==
    /\ segTree \in SegTrees
    /\ outPc = "call"
    /\ payload = <<>>
    /\ use_tts \in BOOLEAN

\* The envelope carries media segments.
OutMediaInit ==
    /\ segTree \in MediaTrees
    /\ outPc = "call"
    /\ payload = <<>>
    /\ use_tts \in BOOLEAN

OutIdle ==
    /\ segTree = SeglistSeg(<<>>)
    /\ outPc = "call"
    /\ payload = <<>>
    /\ use_tts = FALSE

\* The envelope's segment tree is translated.
ParseSeg ==
    /\ outPc = "call"
    /\ payload' = parse_seg_to_nc_format(segTree)
    /\ outPc' = "built"
    /\ UNCHANGED <<segTree, use_tts>>
    /\ UNCHANGED notOut

OutNext == ParseSeg

\* The segments of the walk, in order: the children of a seglist root, or
\* the root itself.
Walk(tree) == IF tree.type = "seglist" THEN tree.items ELSE <<tree>>

\* The reply targets in the walk that belong to ids, in order.
RECURSIVE ReplyTargets(_, _)
ReplyTargets(segs, ids) ==
    IF segs = <<>>
    THEN <<>>
    ELSE IF Head(segs).type = "reply" /\ Head(segs).data \in ids
         THEN <<Head(segs).data>> \o ReplyTargets(Tail(segs), ids)
         ELSE ReplyTargets(Tail(segs), ids)

ReplyPositions(list) == {i \in DOMAIN list : list[i].type = "reply"}

\* The payload has at most one reply element, it is the first one, and it
\* carries the last of the reply targets of the walk that belong to ids.
ReplyFirstAndLastOf(ids) ==
    LET targets == ReplyTargets(Walk(segTree), ids)
    IN  /\ Cardinality(ReplyPositions(payload)) <= 1
        /\ ReplyPositions(payload) # {} =>
               /\ ReplyPositions(payload) = {1}
               /\ targets # <<>>
               /\ payload[1].data = targets[Len(targets)]

\* C10, as stated: the payload contains at most one reply element; if one is
\* present it is the first element and carries the id of the last reply
\* segment encountered in the walk.
C10_ReplyLastEncountered ==
    outPc = "built" => ReplyFirstAndLastOf(ReplyIds)

\* C10, amended: the payload contains at most one reply element; if one is
\* present it is the first element and carries the id of the last reply
\* segment encountered in the walk whose target is not "notice" (a reply to
\* "notice" is skipped and leaves the payload as it is).
C10_ReplyLastNonNotice ==
    outPc = "built" => ReplyFirstAndLastOf(ReplyIds \ {"notice"})

\* C10 witness: a walk with two replies to messages followed by a reply to
\* "notice" was translated, and the payload starts with a reply.
C10_Witness ==
    /\ outPc = "built"
    /\ ReplyTargets(Walk(segTree), ReplyIds) = <<"m1", "m2", "notice">>
    /\ payload # <<>>
    /\ payload[1].type = "reply"

\* C13: whenever the outgoing segment list contains a forward segment, the
\* payload consists solely of node entries, wherever the forward segment
\* stands among its siblings.
C13_ForwardNodesOnly ==
    (outPc = "built" /\ \E i \in DOMAIN Walk(segTree) : Walk(segTree)[i].type = "forward") =>
        \A i \in DOMAIN payload : payload[i].type = "node"

\* A payload element is a segment record with a type and a data key.
WellFormed(element) == element # EmptyDict

\* C28: every element of the payload handed to the gateway is a well-formed
\* segment record with a type and data; a segment whose handler has no
\* output (a voice while use_tts is off or without data, a video without
\* data, unsupported music data) contributes no element, never an empty
\* record.
C28_WellFormedPayload ==
    outPc = "built" => \A i \in DOMAIN payload : WellFormed(payload[i])

(***************************************************************************)
(* INBOUND TRANSLATION                                                     *)
(***************************************************************************)
\* Longest top-level message array that is drawn.
MaxSubs == 3

\* A sub-message is [type, ok, message]: ok says whether its handler (and
\* the gateway query behind it) yields a result, message is the message
\* array of the message a reply refers to.
SubMessage(type, ok) == [type |-> type, ok |-> ok, message |-> <<>>]
ReplySub(ok, message) == [type |-> "reply", ok |-> ok, message |-> message]

\* The message arrays get_message_detail answers a reply with.
RefMessages ==
    {<<>>,
     <<SubMessage("text", TRUE)>>,
     <<SubMessage("record", TRUE)>>,
     <<SubMessage("text", TRUE), SubMessage("record", TRUE)>>,
     <<ReplySub(TRUE, <<>>), SubMessage("image", TRUE)>>,
     <<SubMessage("forward", FALSE)>>}

SubMessages ==
    {SubMessage(type, ok) : type \in {"text", "image", "record", "forward"}, ok \in BOOLEAN}
    \cup {SubMessage("shake", FALSE)}
    \cup {ReplySub(TRUE, message) : message \in RefMessages}
    \cup {ReplySub(FALSE, <<>>)}

RawMessageArrays == UNION {[1..k -> SubMessages] : k \in 0..MaxSubs}

\* The result of handle_real_message: None, or a list of segment types.
NoSegs == [none |-> TRUE, segs |-> <<>>]
Segs(list) == [none |-> FALSE, segs |-> list]
NotSent == <<"not sent">>

RECURSIVE handle_real_message(_, _)
RECURSIVE RealMessageLoop(_, _, _)
RECURSIVE handle_reply_message_in(_)

\* handle_reply_message, lines 767-798: None without data or detail, else
\* the referenced message translated with in_reply=True between two texts.
handle_reply_message_in(sub_message) ==
    IF ~sub_message.ok
    THEN NoSegs
    ELSE LET reply_message == handle_real_message(sub_message.message, TRUE)
             inner == IF reply_message.none THEN <<"text">> ELSE reply_message.segs
         IN  Segs(<<"text">> \o inner \o <<"text">>)

\* handle_real_message, lines 295-300: a record that was fetched clears the
\* list, is appended and ends the walk.
RecordBranch(seg_message, rest, in_reply) == Segs(<<"voice">>)

\* handle_real_message, lines 266-353: the loop over the message array.
RealMessageLoop(subs, seg_message, in_reply) ==
    IF subs = <<>>
    THEN Segs(seg_message)
    ELSE LET sub_message == Head(subs)
             rest == Tail(subs)
         IN  CASE sub_message.type \in {"text", "image"} ->
                    RealMessageLoop(rest,
                        IF sub_message.ok THEN Append(seg_message, sub_message.type)
                                          ELSE seg_message,
                        in_reply)
               [] sub_message.type = "reply" ->
                    IF in_reply
                    THEN RealMessageLoop(rest, seg_message, in_reply)
                    ELSE LET ret_seg == handle_reply_message_in(sub_message)
                         IN  RealMessageLoop(rest,
                                 IF ~ret_seg.none /\ ret_seg.segs # <<>>
                                 THEN seg_message \o ret_seg.segs
                                 ELSE seg_message,
                                 in_reply)
               [] sub_message.type = "record" ->
                    IF sub_message.ok
                    THEN RecordBranch(seg_message, rest, in_reply)
                    ELSE RealMessageLoop(rest, seg_message, in_reply)
               [] sub_message.type = "forward" ->
                    IF ~sub_message.ok
                    THEN NoSegs
                    ELSE RealMessageLoop(rest, Append(seg_message, "seglist"), in_reply)
               [] OTHER -> RealMessageLoop(rest, seg_message, in_reply)

\* handle_real_message, lines 249-354.
handle_real_message(real_message, in_reply) ==
    IF real_message = <<>> THEN NoSegs ELSE RealMessageLoop(real_message, <<>>, in_reply)

InInit ==
    /\ rawMessage \in RawMessageArrays
    /\ inPc = "call"
    /\ inEnvelope = NotSent

InIdle ==
    /\ rawMessage = <<>>
    /\ inPc = "call"
    /\ inEnvelope = NotSent

\* handle_raw_message, lines 209-247: the message array is translated and,
\* unless the result is empty, sent to Core as the seglist of the envelope.
TranslateInbound ==
    /\ inPc = "call"
    /\ LET seg_message == handle_real_message(rawMessage, FALSE)
       IN  inEnvelope' = IF seg_message.none \/ seg_message.segs = <<>>
                         THEN NotSent
                         ELSE seg_message.segs
    /\ inPc' = "done"
    /\ UNCHANGED rawMessage
    /\ UNCHANGED notIn

InNext == TranslateInbound

\* C11: if the segment list of the envelope sent to Core contains a voice
\* segment, that voice segment is the only segment of the list.
C11_VoiceIsSoleSegment ==
    (inPc = "done" /\ inEnvelope # NotSent /\ "voice" \in Range(inEnvelope)) =>
        inEnvelope = <<"voice">>

(***************************************************************************)
(* INBOUND FORWARD TRANSLATION                                             *)
(***************************************************************************)
\* Longest top-level manifest that is drawn.
MaxForwardLen == 3
\* Largest image threshold that is drawn.
MaxThreshold == 3

\* A forwarded message is [kind, ok, content]: kind is the type of the
\* first element of its message array ("empty" when the array is empty,
\* "emoji" for an image whose sub_type is not 0, "forward_nocontent" for a
\* nested forward whose data has no content), ok says whether
\* get_image_base64 succeeds on its url, content is the nested list.
FwdMsg(kind, ok) == [kind |-> kind, ok |-> ok, content |-> <<>>]
FwdNested(content) == [kind |-> "forward", ok |-> TRUE, content |-> content]

NestedContents ==
    {<<>>,
     <<FwdMsg("image", TRUE)>>,
     <<FwdMsg("text", TRUE), FwdMsg("emoji", TRUE)>>,
     <<FwdNested(<<FwdMsg("image", FALSE)>>)>>}

FwdMsgs ==
    {FwdMsg(kind, ok) : kind \in {"image", "emoji"}, ok \in BOOLEAN}
    \cup {FwdMsg("text", TRUE), FwdMsg("empty", TRUE), FwdMsg("video", TRUE),
          FwdMsg("forward_nocontent", TRUE)}
    \cup {FwdNested(content) : content \in NestedContents}

ForwardManifests == UNION {[1..k -> FwdMsgs] : k \in 1..MaxForwardLen}

\* A leaf segment; an image or emoji leaf built by _handle_forward_message
\* holds the url, tagged with whether it can be fetched.
Leaf(type, data) == [type |-> type, data |-> data, items |-> <<>>]
UrlOf(msg) == IF msg.ok THEN "url" ELSE "bad url"
NoneSeg == Leaf("None", "")

RECURSIVE handle_forward_list(_, _)
RECURSIVE ForwardListLoop(_, _, _, _)

\* _handle_forward_message, lines 893-961: the loop; the result is the list
\* of segments and the image count.
ForwardListLoop(message_list, layer, seg_list, image_count) ==
    IF message_list = <<>>
    THEN [segs |-> seg_list, count |-> image_count]
    ELSE LET sub_message == Head(message_list)
             rest == Tail(message_list)
         IN  CASE sub_message.kind \in {"forward", "forward_nocontent"} ->
                    LET sub == IF sub_message.kind = "forward"
                               THEN handle_forward_list(sub_message.content, layer + 1)
                               ELSE [seg |-> NoneSeg, count |-> 0]
                    IN  ForwardListLoop(rest, layer,
                            Append(seg_list, SeglistSeg(<<TextSeg("head_tip"), sub.seg>>)),
                            image_count + sub.count)
               [] sub_message.kind = "text" ->
                    ForwardListLoop(rest, layer,
                        Append(seg_list, SeglistSeg(<<TextSeg("nickname"), TextSeg("text"),
                                                      TextSeg("break")>>)),
                        image_count)
               [] sub_message.kind \in {"image", "emoji"} ->
                    ForwardListLoop(rest, layer,
                        Append(seg_list, SeglistSeg(<<TextSeg("nickname"),
                                                      Leaf(sub_message.kind, UrlOf(sub_message)),
                                                      TextSeg("break")>>)),
                        image_count + 1)
               [] OTHER -> ForwardListLoop(rest, layer, seg_list, image_count)

\* _handle_forward_message, lines 877-964, for a list that is not None.
handle_forward_list(message_list, layer) ==
    LET out == ForwardListLoop(message_list, layer, <<TextSeg("begin")>>, 0)
    IN  [seg |-> SeglistSeg(Append(out.segs, TextSeg("end"))), count |-> out.count]

RECURSIVE ParseRaises(_)
\* _recursive_parse_image_seg reads seg_data.type: it raises on a None
\* segment anywhere in the tree.
ParseRaises(seg_data) ==
    \/ seg_data = NoneSeg
    \/ /\ seg_data.type = "seglist"
       /\ \E i \in DOMAIN seg_data.items : ParseRaises(seg_data.items[i])

RECURSIVE recursive_parse_image_seg(_, _)
RECURSIVE ParseEach(_, _)

ParseEach(segs, to_image) ==
    IF segs = <<>>
    THEN <<>>
    ELSE <<recursive_parse_image_seg(Head(segs), to_image)>> \o ParseEach(Tail(segs), to_image)

\* _recursive_parse_image_seg, lines 834-875.
recursive_parse_image_seg(seg_data, to_image) ==
    CASE seg_data.type = "seglist" -> SeglistSeg(ParseEach(seg_data.items, to_image))
      [] seg_data.type = "image" ->
            IF to_image
            THEN IF seg_data.data = "url" THEN Leaf("image", "base64") ELSE TextSeg("[image]")
            ELSE TextSeg("[image]")
      [] seg_data.type = "emoji" ->
            IF to_image
            THEN IF seg_data.data = "url" THEN Leaf("emoji", "base64") ELSE TextSeg("[emoji]")
            ELSE TextSeg("[animated emoji]")
      [] OTHER -> seg_data

\* A variant of the threshold test that still decodes at equality.
ToImageInclusive(image_count, threshold) == image_count <= threshold

\* handle_forward_message, line 820: image_count < image_threshold.
ToImage(image_count, threshold) == image_count < threshold

\* handle_forward_message, lines 800-832.
handle_forward_message_in(message_list, threshold) ==
    LET handled == handle_forward_list(message_list, 0)
        wrap(seg) == SeglistSeg(<<TextSeg("header"), seg, TextSeg("footer")>>)
    IN  IF handled.count > 0
        THEN IF ParseRaises(handled.seg)
             THEN [status |-> "raise", seg |-> NoneSeg]
             ELSE [status |-> "ok",
                   seg |-> wrap(recursive_parse_image_seg(handled.seg,
                                    ToImage(handled.count, threshold)))]
        ELSE [status |-> "ok", seg |-> wrap(handled.seg)]

FwdInit ==
    /\ fwdMessages \in ForwardManifests
    /\ image_threshold \in 0..MaxThreshold
    /\ fwdPc = "call"
    /\ fwdResult = [status |-> "none", seg |-> NoneSeg]

FwdIdle ==
    /\ fwdMessages = <<FwdMsg("text", TRUE)>>
    /\ image_threshold = 0
    /\ fwdPc = "call"
    /\ fwdResult = [status |-> "none", seg |-> NoneSeg]

\* handle_real_message, lines 340-347: the forward branch calls
\* handle_forward_message on the fetched manifest.
TranslateForward ==
    /\ fwdPc = "call"
    /\ fwdResult' = handle_forward_message_in(fwdMessages, image_threshold)
    /\ fwdPc' = "done"
    /\ UNCHANGED <<fwdMessages, image_threshold>>
    /\ UNCHANGED notFwd

FwdNext == TranslateForward

\* The number of image and emoji entries of a manifest over all layers.
RECURSIVE ImageEntries(_)
ImageEntries(message_list) ==
    IF message_list = <<>>
    THEN 0
    ELSE LET m == Head(message_list)
         IN  (CASE m.kind \in {"image", "emoji"} -> 1
                [] m.kind = "forward" -> ImageEntries(m.content)
                [] OTHER -> 0)
             + ImageEntries(Tail(message_list))

\* The leaves of a segment tree, in order.
RECURSIVE Leaves(_)
RECURSIVE LeavesOfAll(_)
LeavesOfAll(segs) ==
    IF segs = <<>> THEN <<>> ELSE Leaves(Head(segs)) \o LeavesOfAll(Tail(segs))

Leaves(seg) == IF seg.type = "seglist" THEN LeavesOfAll(seg.items) ELSE <<seg>>

Placeholders == {"[image]", "[emoji]", "[animated emoji]"}

MaxCallbacks == 2
\* reload() calls in one run.
MaxReloadCalls == 2

\* The dotted paths of the snapshot that are looked at, and their values.
CfgPaths == {"napcat_server", "debug.level"}
CfgValues == {1, 2}
Configs == [CfgPaths -> CfgValues]

\* The file holds a valid config, does not parse, or does not exist.
ValidFile(content) == [kind |-> "valid", content |-> content]
BrokenFile(kind) == [kind |-> kind, content |-> [p \in CfgPaths |-> 1]]
CfgFiles == {ValidFile(c) : c \in Configs} \cup {BrokenFile("invalid"), BrokenFile("missing")}

\* A callback is what it does when called: return ("ok") or raise.
CallbackLists == UNION {[1..k -> {"ok", "raise"}] : k \in 0..MaxCallbacks}

\* The registrations made at start: callbacks on the two paths and possibly
\* one on a path the snapshot does not have.
Registries ==
    {<<[path |-> "napcat_server", cbs |-> c1], [path |-> "no.such_path", cbs |-> c2],
       [path |-> "debug.level", cbs |-> c3]>> :
        c1 \in CallbackLists, c2 \in {<<>>, <<"ok">>}, c3 \in CallbackLists}

\* config.load_config: the parsed snapshot, or an exception.
load_config(file) ==
    IF file.kind = "valid"
    THEN [ok |-> TRUE, config |-> file.content]
    ELSE [ok |-> FALSE, config |-> file.content]

\* A variant in which a raising callback ends the loop over the callbacks.
ContinueAfterOnlyOk(behaviour) == behaviour = "ok"

\* _notify_changes, lines 103-113: the try/except around each callback; the
\* loop goes on whatever the callback did.
ContinueAfter(behaviour) == TRUE

\* _notify_changes, lines 102-113: the callbacks of one path from the i-th
\* on, each called with (old_value, new_value).
RECURSIVE CallbacksFrom(_, _, _, _)
CallbacksFrom(entry, i, old_value, new_value) ==
    IF i > Len(entry.cbs)
    THEN <<>>
    ELSE <<[path |-> entry.path, index |-> i, old |-> old_value, new |-> new_value]>>
         \o IF ContinueAfter(entry.cbs[i])
            THEN CallbacksFrom(entry, i + 1, old_value, new_value)
            ELSE <<>>

\* _notify_changes, lines 90-116: _get_value raises on a path the snapshot
\* does not have, which skips that path.
RECURSIVE notify_changes(_, _, _)
notify_changes(registry, old_config, new_config) ==
    IF registry = <<>>
    THEN <<>>
    ELSE LET entry == Head(registry)
         IN  (IF entry.path \in CfgPaths /\ old_config[entry.path] # new_config[entry.path]
              THEN CallbacksFrom(entry, 1, old_config[entry.path], new_config[entry.path])
              ELSE <<>>)
             \o notify_changes(Tail(registry), old_config, new_config)

\* A variant of the failure path that swaps the snapshot in all the same.
reload_failure_swaps(old_config, new_config) ==
    [config |-> new_config, log |-> <<>>, return |-> "False"]

\* reload, lines 70-72: the except branch.
reload_failure(old_config, new_config) ==
    [config |-> old_config, log |-> <<>>, return |-> "False"]

\* reload, lines 46-72.
reload(old_config, file, registry) ==
    LET loaded == load_config(file)
    IN  IF loaded.ok
        THEN [config |-> loaded.config,
              log |-> notify_changes(registry, old_config, loaded.config),
              return |-> "True"]
        ELSE reload_failure(old_config, loaded.config)

CfgInit ==
    /\ liveConfig \in Configs
    /\ cfgFile = ValidFile(liveConfig)
    /\ callbacks \in Registries
    /\ callLog = <<>>
    /\ reloadReturn = "none"
    /\ reloadCalls = 0

CfgIdle ==
    /\ liveConfig = [p \in CfgPaths |-> 1]
    /\ cfgFile = ValidFile(liveConfig)
    /\ callbacks = <<[path |-> "napcat_server", cbs |-> <<"ok">>]>>
    /\ callLog = <<>>
    /\ reloadReturn = "none"
    /\ reloadCalls = 0

\* The file is edited, damaged or removed.
WriteFile(file) ==
    /\ file # cfgFile
    /\ cfgFile' = file
    /\ UNCHANGED <<liveConfig, callbacks, callLog, reloadReturn, reloadCalls>>
    /\ UNCHANGED notCfg

\* reload() is called and runs to its end.
ReloadCall ==
    /\ reloadCalls < MaxReloadCalls
    /\ LET out == reload(liveConfig, cfgFile, callbacks)
       IN  /\ liveConfig' = out.config
           /\ callLog' = out.log
           /\ reloadReturn' = out.return
    /\ reloadCalls' = reloadCalls + 1
    /\ UNCHANGED <<cfgFile, callbacks>>
    /\ UNCHANGED notCfg

CfgNext ==
    \/ \E file \in CfgFiles : WriteFile(file)
    \/ ReloadCall

\* C14: a reload whose file does not parse or does not exist leaves the live
\* snapshot unchanged, invokes no callback and returns False; a reload after
\* a failed one succeeds when the file is valid again.
C14_FailedReloadKeepsSnapshot ==
    [][reloadCalls' # reloadCalls =>
          /\ cfgFile.kind # "valid" =>
                (liveConfig' = liveConfig /\ callLog' = <<>> /\ reloadReturn' = "False")
          /\ (reloadReturn = "False" /\ cfgFile.kind = "valid") =>
                (liveConfig' = cfgFile.content /\ reloadReturn' = "True")]_vars

\* C14 witness: with callbacks registered, a reload of a file that does not
\* exist has returned False.
C14_Witness ==
    /\ reloadCalls > 0
    /\ reloadReturn = "False"
    /\ cfgFile.kind = "missing"
    /\ callbacks[1].cbs # <<>>
    /\ callLog = <<>>

\* The invocations a reload from old to new must make: one per callback
\* registered on a path whose value differs.
Expected(old_config, new_config) ==
    {<<i, j>> \in (DOMAIN callbacks) \X (1..MaxCallbacks + 1) :
        /\ j <= Len(callbacks[i].cbs)
        /\ callbacks[i].path \in CfgPaths
        /\ old_config[callbacks[i].path] # new_config[callbacks[i].path]}

\* C15: on a successful reload exactly the callbacks registered on paths
\* whose value differs are invoked, each once with (old_value, new_value),
\* per path in registration order, whether or not some of them raise, and
\* the snapshot is replaced.
C15_CallbacksOfChangedPaths ==
    [][(reloadCalls' # reloadCalls /\ cfgFile.kind = "valid") =>
          LET new_config == cfgFile.content
              want == Expected(liveConfig, new_config)
              log == callLog'
          IN  /\ liveConfig' = new_config
              /\ Len(log) = Cardinality(want)
              /\ \A w \in want :
                    \E k \in DOMAIN log :
                        /\ log[k].path = callbacks[w[1]].path
                        /\ log[k].index = w[2]
                        /\ log[k].old = liveConfig[log[k].path]
                        /\ log[k].new = new_config[log[k].path]
              /\ \A k, l \in DOMAIN log :
                    (k < l /\ log[k].path = log[l].path) => log[k].index < log[l].index]_vars

\* C15 witness: a reload changed both paths; the first callback of each path
\* raises and the second one was invoked all the same.
C15_Witness ==
    /\ reloadReturn = "True"
    /\ Len(callLog) = 4
    /\ callbacks[1].cbs = <<"raise", "ok">>
    /\ callbacks[3].cbs = <<"raise", "ok">>

(***************************************************************************)
(* CONFIGURATION MANAGER: file watcher and debounce                        *)
(***************************************************************************)
\* File-modification events in one run.
MaxTriggers == 3
\* Last reading of the clock.
MaxClock == 4
\* _debounce_delay, 0.5 s, in clock ticks.
DebounceTicks == 2

DbTaskIds == 1..MaxTriggers
Unborn == [pc |-> "unborn", trigger_time |-> 0]

\* What the file is changed to while the watcher runs.
DebounceFiles ==
    {ValidFile([p \in CfgPaths |-> 1]), ValidFile([p \in CfgPaths |-> 2]),
     BrokenFile("invalid"), BrokenFile("missing")}

DbInit ==
    /\ dbClock = 0
    /\ dbTasks = [t \in DbTaskIds |-> Unborn]
    /\ last_reload_trigger = 0
    /\ is_reloading = FALSE
    /\ dbPending = [p \in CfgPaths |-> 1]
    /\ dbNotified = TRUE

DbIdle == DbInit

Born == {t \in DbTaskIds : dbTasks[t].pc # "unborn"}

\* Time passes: the next reading of the clock is larger.
DbTick ==
    /\ dbClock < MaxClock
    /\ dbClock' = dbClock + 1
    /\ UNCHANGED <<dbTasks, last_reload_trigger, is_reloading, dbPending, dbNotified, cfgVars>>
    /\ UNCHANGED notDb

\* The file is changed while the watcher runs.
FileModified(file) ==
    /\ file # cfgFile
    /\ cfgFile' = file
    /\ UNCHANGED <<liveConfig, callbacks, callLog, reloadReturn, reloadCalls>>
    /\ dbNotified' = FALSE
    /\ UNCHANGED <<dbClock, dbTasks, last_reload_trigger, is_reloading, dbPending>>
    /\ UNCHANGED notDb

\* ConfigFileHandler.on_modified, lines 185-196, and _debounced_reload, lines
\* 236-244: an event starts a coroutine, which reads the clock, stores the
\* reading in _last_reload_trigger and goes to sleep.
Trigger ==
    /\ Cardinality(Born) < MaxTriggers
    /\ LET t == Cardinality(Born) + 1
       IN  dbTasks' = [dbTasks EXCEPT ![t] = [pc |-> "sleeping", trigger_time |-> dbClock]]
    /\ last_reload_trigger' = dbClock
    /\ dbNotified' = TRUE
    /\ UNCHANGED <<dbClock, is_reloading, dbPending, cfgVars>>
    /\ UNCHANGED notDb

\* _debounced_reload, lines 246-277: the sleep is over.  The coroutine gives
\* up when a later reading was stored or a reload is in progress; else it
\* reads the modification time (which raises when the file is gone) and
\* calls reload.  A reload that calls callbacks is suspended in them.
Wake(t) ==
    /\ dbTasks[t].pc = "sleeping"
    /\ dbClock >= dbTasks[t].trigger_time + DebounceTicks
    /\ IF last_reload_trigger > dbTasks[t].trigger_time
       THEN /\ dbTasks' = [dbTasks EXCEPT ![t].pc = "aborted"]
            /\ UNCHANGED <<is_reloading, dbPending, cfgVars>>
       ELSE IF is_reloading
       THEN /\ dbTasks' = [dbTasks EXCEPT ![t].pc = "skipped"]
            /\ UNCHANGED <<is_reloading, dbPending, cfgVars>>
       ELSE IF cfgFile.kind = "missing"
       THEN /\ dbTasks' = [dbTasks EXCEPT ![t].pc = "raised"]
            /\ UNCHANGED <<is_reloading, dbPending, cfgVars>>
       ELSE LET out == reload(liveConfig, cfgFile, callbacks)
            IN  /\ callLog' = out.log
                /\ reloadCalls' = reloadCalls + 1
                /\ UNCHANGED <<cfgFile, callbacks>>
                /\ IF out.log = <<>>
                   THEN /\ liveConfig' = out.config
                        /\ reloadReturn' = out.return
                        /\ dbTasks' = [dbTasks EXCEPT ![t].pc = "reloaded"]
                        /\ UNCHANGED <<is_reloading, dbPending>>
                   ELSE /\ dbPending' = out.config
                        /\ is_reloading' = TRUE
                        /\ dbTasks' = [dbTasks EXCEPT ![t].pc = "reloading"]
                        /\ UNCHANGED <<liveConfig, reloadReturn>>
    /\ UNCHANGED <<dbClock, last_reload_trigger, dbNotified>>
    /\ UNCHANGED notDb

\* reload, lines 66-68, and _debounced_reload, lines 276-277: the callbacks
\* have returned; the snapshot is replaced and the flag is cleared.
ReloadDone(t) ==
    /\ dbTasks[t].pc = "reloading"
    /\ liveConfig' = dbPending
    /\ reloadReturn' = "True"
    /\ is_reloading' = FALSE
    /\ dbTasks' = [dbTasks EXCEPT ![t].pc = "reloaded"]
    /\ UNCHANGED <<dbClock, last_reload_trigger, dbPending, dbNotified>>
    /\ UNCHANGED <<cfgFile, callbacks, callLog, reloadCalls>>
    /\ UNCHANGED notDb

DbNext ==
    \/ DbTick
    \/ \E file \in DebounceFiles : FileModified(file)
    \/ Trigger
    \/ \E t \in DbTaskIds : Wake(t)
    \/ \E t \in DbTaskIds : ReloadDone(t)

\* C16: in a burst, where each trigger comes less than the debounce window
\* after the previous one, every trigger but the last aborts when its sleep
\* wakes: a trigger that is followed within the window never gets to reload.
C16_OnlyLastTriggerReloads ==
    \A t \in DbTaskIds :
        (/\ t + 1 \in Born
         /\ dbTasks[t + 1].trigger_time - dbTasks[t].trigger_time < DebounceTicks)
            => dbTasks[t].pc \in {"sleeping", "aborted"}

\* Every coroutine of _debounced_reload that was started has ended.
DebounceQuiet ==
    \A t \in Born : dbTasks[t].pc \in {"aborted", "skipped", "raised", "reloaded"}

\* C30: configuration convergence.  Once the watcher has reported the last
\* change of the file and every _debounced_reload coroutine has ended, a
\* file that parses is the live snapshot, whatever the interleaving
\* (including a trigger that wakes while an earlier reload is running).
C30_ConfigConverges ==
    (dbNotified /\ DebounceQuiet /\ cfgFile.kind = "valid")
        => liveConfig = cfgFile.content

(***************************************************************************)
(* COMMAND DISPATCHER: send_command and the command registry               *)
(***************************************************************************)
\* Command messages Core sends in one run.
MaxCommands == 2

\* src.CommandType: member name |-> value.
CommandType ==
    [GROUP_BAN |-> "set_group_ban",
     GROUP_WHOLE_BAN |-> "set_group_whole_ban",
     GROUP_KICK |-> "set_group_kick",
     GROUP_KICK_MEMBERS |-> "set_group_kick_members",
     SET_GROUP_NAME |-> "set_group_name",
     SEND_POKE |-> "send_poke",
     DELETE_MSG |-> "delete_msg",
     AI_VOICE_SEND |-> "send_group_ai_record",
     MESSAGE_LIKE |-> "message_like",
     SET_QQ_PROFILE |-> "set_qq_profile",
     GET_LOGIN_INFO |-> "get_login_info",
     GET_STRANGER_INFO |-> "get_stranger_info",
     GET_FRIEND_LIST |-> "get_friend_list",
     GET_GROUP_INFO |-> "get_group_info",
     GET_GROUP_DETAIL_INFO |-> "get_group_detail_info",
     GET_GROUP_LIST |-> "get_group_list",
     GET_GROUP_AT_ALL_REMAIN |-> "get_group_at_all_remain",
     GET_GROUP_MEMBER_INFO |-> "get_group_member_info",
     GET_GROUP_MEMBER_LIST |-> "get_group_member_list",
     GET_MSG |-> "get_msg",
     GET_FORWARD_MSG |-> "get_forward_msg"]

\* The identifier register_command files a handler under, line 23:
\* command_type.name, the member name.
RegistryKey(member) == member

\* The commands registered with require_group=True (lines 71, 101, 356).
GroupCommands == {"GROUP_BAN", "GROUP_WHOLE_BAN", "AI_VOICE_SEND"}

\* _command_handlers after the decorators ran: key |-> the member handled
\* and require_group.
_command_handlers ==
    [k \in {RegistryKey(m) : m \in DOMAIN CommandType} |->
        LET member == CHOOSE m \in DOMAIN CommandType : RegistryKey(m) = k
        IN  [handler |-> member, require_group |-> member \in GroupCommands]]

\* message_info.group_info: None or a GroupInfo with its group_id.
NoGroupInfo == [some |-> FALSE, group_id |-> 0]
GroupInfo(group_id) == [some |-> TRUE, group_id |-> group_id]
GroupInfos == {NoGroupInfo, GroupInfo(1), GroupInfo(0)}

\* The args dict of a command: the keys present and their values.  The key
\* "user_id[]" is the key user_id holding a list (user_ids).
NoArgs ==
    [fields |-> {}, qq_id |-> 0, duration |-> 0, enable |-> "True", group_id |-> 0,
     user_id |-> 0, user_ids |-> <<>>, message_id |-> 0, emoji_id |-> 0,
     group_name |-> "", nickname |-> "", sex |-> "", character |-> "", text |-> ""]

\* The longest ban, in seconds (line 89).
MaxBanSeconds == 2592000

CommandArgs ==
    {NoArgs,
     [NoArgs EXCEPT !.fields = {"qq_id", "duration"}, !.qq_id = 1, !.duration = 60],
     [NoArgs EXCEPT !.fields = {"qq_id", "duration"}, !.qq_id = 1, !.duration = MaxBanSeconds + 1],
     [NoArgs EXCEPT !.fields = {"qq_id", "duration"}, !.qq_id = 1, !.duration = -1],
     [NoArgs EXCEPT !.fields = {"qq_id", "duration"}, !.qq_id = 0, !.duration = 60],
     [NoArgs EXCEPT !.fields = {"qq_id"}, !.qq_id = 1],
     [NoArgs EXCEPT !.fields = {"enable"}, !.enable = "True"],
     [NoArgs EXCEPT !.fields = {"enable"}, !.enable = "not a bool"],
     [NoArgs EXCEPT !.fields = {"user_id"}, !.user_id = 1],
     [NoArgs EXCEPT !.fields = {"user_id", "group_id"}, !.user_id = 1, !.group_id = 1],
     [NoArgs EXCEPT !.fields = {"user_id", "group_id"}, !.user_id = -1, !.group_id = 1],
     [NoArgs EXCEPT !.fields = {"user_id[]", "group_id"}, !.user_ids = <<1, 2>>, !.group_id = 1],
     [NoArgs EXCEPT !.fields = {"user_id[]", "group_id"}, !.user_ids = <<1, 0>>, !.group_id = 1],
     [NoArgs EXCEPT !.fields = {"user_id[]", "group_id"}, !.group_id = 1],
     [NoArgs EXCEPT !.fields = {"group_id"}, !.group_id = 1],
     [NoArgs EXCEPT !.fields = {"group_id"}, !.group_id = -1],
     [NoArgs EXCEPT !.fields = {"group_id", "group_name"}, !.group_id = 1, !.group_name = "name"],
     [NoArgs EXCEPT !.fields = {"message_id"}, !.message_id = 1],
     [NoArgs EXCEPT !.fields = {"message_id"}, !.message_id = -1],
     [NoArgs EXCEPT !.fields = {"message_id", "emoji_id"}, !.message_id = 1, !.emoji_id = 1],
     [NoArgs EXCEPT !.fields = {"nickname"}, !.nickname = "nick"],
     [NoArgs EXCEPT !.fields = {"nickname", "sex"}, !.nickname = "nick", !.sex = "other"],
     [NoArgs EXCEPT !.fields = {"character", "text"}, !.character = "c", !.text = "t"]}

\* What a handler does: return (action, params), params as its set of keys,
\* or raise.
Return(action, params) == [raised |-> FALSE, command |-> action, params |-> params]
Raise == [raised |-> TRUE, command |-> "", params |-> {}]

\* "key" in args.
Has(args, key) == key \in args.fields

\* "not args".
Empty(args) == args.fields = {}

\* group_id = args.get("group_id"); if not group_id and group_info:
\* group_id = int(group_info.group_id).  0 stands for a falsy result.
GroupIdOf(args, group_info) ==
    IF Has(args, "group_id") /\ args.group_id # 0 THEN args.group_id
    ELSE IF group_info.some THEN group_info.group_id
    ELSE 0

\* user_id = args.get("user_id") as a truthy scalar that int() accepts.
UserIdOf(args) == IF Has(args, "user_id") THEN args.user_id ELSE 0

\* handle_ban_command, lines 82-98.
handle_ban_command(args, group_info) ==
    IF ~Has(args, "duration") \/ ~Has(args, "qq_id") THEN Raise
    ELSE IF args.duration < 0 THEN Raise
    ELSE IF args.qq_id = 0 \/ group_info.group_id = 0 THEN Raise
    ELSE IF args.duration > MaxBanSeconds THEN Raise
    ELSE Return(CommandType.GROUP_BAN, {"group_id", "user_id", "duration"})

\* handle_whole_ban_command, lines 112-123.
handle_whole_ban_command(args, group_info) ==
    IF ~Has(args, "enable") THEN Raise
    ELSE IF args.enable \notin {"True", "False"} THEN Raise
    ELSE IF group_info.group_id <= 0 THEN Raise
    ELSE Return(CommandType.GROUP_WHOLE_BAN, {"group_id", "enable"})

\* handle_kick_command, lines 137-169.  int() of a list raises.
handle_kick_command(args, group_info) ==
    IF Empty(args) THEN Raise
    ELSE IF GroupIdOf(args, group_info) = 0 THEN Raise
    ELSE IF Has(args, "user_id[]")
         THEN Raise
    ELSE IF UserIdOf(args) = 0 THEN Raise
    ELSE IF GroupIdOf(args, group_info) <= 0 \/ UserIdOf(args) <= 0 THEN Raise
    ELSE Return(CommandType.GROUP_KICK, {"group_id", "user_id", "reject_add_request"})

\* handle_kick_members_command, lines 183-229.
handle_kick_members_command(args, group_info) ==
    IF Empty(args) THEN Raise
    ELSE IF GroupIdOf(args, group_info) = 0 THEN Raise
    ELSE IF ~Has(args, "user_id[]")
         THEN Raise
    ELSE IF args.user_ids = <<>> THEN Raise
    ELSE IF \E i \in DOMAIN args.user_ids : args.user_ids[i] <= 0 THEN Raise
    ELSE IF GroupIdOf(args, group_info) <= 0 THEN Raise
    ELSE Return(CommandType.GROUP_KICK_MEMBERS, {"group_id", "user_id", "reject_add_request"})

\* handle_poke_command, lines 243-258.
handle_poke_command(args, group_info) ==
    IF ~Has(args, "qq_id") THEN Raise
    ELSE IF group_info.some /\ group_info.group_id <= 0 THEN Raise
    ELSE IF args.qq_id <= 0 THEN Raise
    ELSE Return(CommandType.SEND_POKE, {"group_id", "user_id"})

\* handle_set_group_name_command, lines 272-297.
handle_set_group_name_command(args, group_info) ==
    IF Empty(args) THEN Raise
    ELSE IF GroupIdOf(args, group_info) = 0 THEN Raise
    ELSE IF ~Has(args, "group_name") \/ args.group_name = "" THEN Raise
    ELSE IF GroupIdOf(args, group_info) <= 0 THEN Raise
    ELSE Return(CommandType.SET_GROUP_NAME, {"group_id", "group_name"})

\* delete_msg_command, lines 311-320.
delete_msg_command(args, group_info) ==
    IF ~Has(args, "message_id") THEN Raise
    ELSE IF args.message_id <= 0 THEN Raise
    ELSE Return(CommandType.DELETE_MSG, {"message_id"})

\* handle_set_qq_profile_command, lines 334-353.
handle_set_qq_profile_command(args, group_info) ==
    IF Empty(args) THEN Raise
    ELSE IF ~Has(args, "nickname") \/ args.nickname = "" THEN Raise
    ELSE IF Has(args, "sex") /\ args.sex \notin {"male", "female", "unknown"} THEN Raise
    ELSE Return(CommandType.SET_QQ_PROFILE,
                {"nickname"} \cup (args.fields \cap {"personal_note", "sex"}))

\* handle_ai_voice_send_command, lines 367-386.
handle_ai_voice_send_command(args, group_info) ==
    IF ~group_info.some \/ group_info.group_id = 0 THEN Raise
    ELSE IF Empty(args) THEN Raise
    ELSE IF ~Has(args, "character") \/ args.character = "" THEN Raise
    ELSE IF ~Has(args, "text") \/ args.text = "" THEN Raise
    ELSE Return(CommandType.AI_VOICE_SEND, {"group_id", "text", "character"})

\* handle_message_like_command, lines 400-424.
handle_message_like_command(args, group_info) ==
    IF Empty(args) THEN Raise
    ELSE IF ~Has(args, "message_id") \/ args.message_id = 0 THEN Raise
    ELSE IF ~Has(args, "emoji_id") \/ args.emoji_id = 0 THEN Raise
    ELSE IF args.message_id <= 0 \/ args.emoji_id <= 0 THEN Raise
    ELSE Return(CommandType.MESSAGE_LIKE, {"message_id", "emoji_id", "set"})

\* handle_get_login_info_command, line 440: an empty params dict.
handle_get_login_info_command(args, group_info) ==
    Return(CommandType.GET_LOGIN_INFO, {})

\* handle_get_stranger_info_command, lines 454-468.
handle_get_stranger_info_command(args, group_info) ==
    IF Empty(args) THEN Raise
    ELSE IF Has(args, "user_id[]") THEN Raise
    ELSE IF UserIdOf(args) = 0 THEN Raise
    ELSE IF UserIdOf(args) <= 0 THEN Raise
    ELSE Return(CommandType.GET_STRANGER_INFO, {"user_id"})

\* handle_get_friend_list_command, lines 483-485, and
\* handle_get_group_list_command, lines 558-560.
handle_no_cache_command(member) == Return(CommandType[member], {"no_cache"})

\* handle_get_group_info_command, lines 500-514, and the handlers of
\* GET_GROUP_DETAIL_INFO (529-543) and GET_GROUP_AT_ALL_REMAIN (575-589),
\* which differ in the action only.
handle_group_id_command(member, args, group_info) ==
    IF GroupIdOf(args, group_info) = 0 THEN Raise
    ELSE IF GroupIdOf(args, group_info) <= 0 THEN Raise
    ELSE Return(CommandType[member], {"group_id"})

\* handle_get_group_member_info_command, lines 603-633.
handle_get_group_member_info_command(args, group_info) ==
    IF Empty(args) THEN Raise
    ELSE IF GroupIdOf(args, group_info) = 0 THEN Raise
    ELSE IF Has(args, "user_id[]") THEN Raise
    ELSE IF UserIdOf(args) = 0 THEN Raise
    ELSE IF GroupIdOf(args, group_info) <= 0 \/ UserIdOf(args) <= 0 THEN Raise
    ELSE Return(CommandType.GET_GROUP_MEMBER_INFO, {"group_id", "user_id", "no_cache"})

\* handle_get_group_member_list_command, lines 648-667.
handle_get_group_member_list_command(args, group_info) ==
    IF GroupIdOf(args, group_info) = 0 THEN Raise
    ELSE IF GroupIdOf(args, group_info) <= 0 THEN Raise
    ELSE Return(CommandType.GET_GROUP_MEMBER_LIST, {"group_id", "no_cache"})

\* handle_get_msg_command, lines 681-695.
handle_get_msg_command(args, group_info) ==
    IF Empty(args) THEN Raise
    ELSE IF ~Has(args, "message_id") \/ args.message_id = 0 THEN Raise
    ELSE IF args.message_id <= 0 THEN Raise
    ELSE Return(CommandType.GET_MSG, {"message_id"})

\* handle_get_forward_msg_command, lines 709-719.
handle_get_forward_msg_command(args, group_info) ==
    IF Empty(args) THEN Raise
    ELSE IF ~Has(args, "message_id") \/ args.message_id = 0 THEN Raise
    ELSE Return(CommandType.GET_FORWARD_MSG, {"message_id"})

\* handler(args, group_info), line 63, for the handler of a member.
CallHandler(member, args, group_info) ==
    CASE member = "GROUP_BAN" -> handle_ban_command(args, group_info)
      [] member = "GROUP_WHOLE_BAN" -> handle_whole_ban_command(args, group_info)
      [] member = "GROUP_KICK" -> handle_kick_command(args, group_info)
      [] member = "GROUP_KICK_MEMBERS" -> handle_kick_members_command(args, group_info)
      [] member = "SEND_POKE" -> handle_poke_command(args, group_info)
      [] member = "SET_GROUP_NAME" -> handle_set_group_name_command(args, group_info)
      [] member = "DELETE_MSG" -> delete_msg_command(args, group_info)
      [] member = "SET_QQ_PROFILE" -> handle_set_qq_profile_command(args, group_info)
      [] member = "AI_VOICE_SEND" -> handle_ai_voice_send_command(args, group_info)
      [] member = "MESSAGE_LIKE" -> handle_message_like_command(args, group_info)
      [] member = "GET_LOGIN_INFO" -> handle_get_login_info_command(args, group_info)
      [] member = "GET_STRANGER_INFO" -> handle_get_stranger_info_command(args, group_info)
      [] member \in {"GET_FRIEND_LIST", "GET_GROUP_LIST"} -> handle_no_cache_command(member)
      [] member \in {"GET_GROUP_INFO", "GET_GROUP_DETAIL_INFO", "GET_GROUP_AT_ALL_REMAIN"} ->
             handle_group_id_command(member, args, group_info)
      [] member = "GET_GROUP_MEMBER_INFO" -> handle_get_group_member_info_command(args, group_info)
      [] member = "GET_GROUP_MEMBER_LIST" -> handle_get_group_member_list_command(args, group_info)
      [] member = "GET_MSG" -> handle_get_msg_command(args, group_info)
      [] member = "GET_FORWARD_MSG" -> handle_get_forward_msg_command(args, group_info)

\* SendCommandHandleClass.handle_command, lines 47-66: RuntimeError for a
\* name that is not a key of the registry, for a missing group context and
\* for whatever the handler raises.
handle_command(raw_command_data, group_info) ==
    IF raw_command_data.name \notin DOMAIN _command_handlers THEN Raise
    ELSE LET handler_info == _command_handlers[raw_command_data.name]
         IN  IF handler_info.require_group /\ ~group_info.some THEN Raise
             ELSE CallHandler(handler_info.handler, raw_command_data.args, group_info)

\* The name field of the command messages Core sends: the registry keys, the
\* gateway action names and a name that is neither.
CommandNames ==
    DOMAIN CommandType \cup {CommandType[m] : m \in DOMAIN CommandType} \cup {"no_such_command"}

\* A command message: seg_data name and args, message_info.group_info.
CommandMessages ==
    [name : CommandNames, args : CommandArgs, group_info : GroupInfos]

NoCommand == [name |-> "", args |-> NoArgs, group_info |-> NoGroupInfo]

\* The status of the answer send_message_to_napcat returns; "error" is the
\* answer it builds itself when no response arrives in time.
GatewayStatuses == {"ok", "failed", "error"}

CmdInit ==
    /\ cmdMsg = NoCommand
    /\ cmdPc = "idle"
    /\ gateway_actions = <<>>
    /\ gateway_status = "none"
    /\ cmdResponses = <<>>
    /\ cmdServed = 0
    /\ cmdFailed = 0

CmdIdle == CmdInit

\* _send_command_response, lines 102-121: one send_custom_message call
\* with message_type command_response; error is part of the envelope when it
\* is not empty; an exception of the send is caught (sent tells whether the
\* envelope went out).
command_response(command_name, success, error, sent) ==
    [message_type |-> "command_response", command_name |-> command_name,
     success |-> success, error |-> error, sent |-> sent]

\* Core sends a command message: handle_message, lines 22-26, starts
\* send_command.
CoreCommand(msg) ==
    /\ cmdPc = "idle"
    /\ cmdServed < MaxCommands
    /\ cmdMsg' = msg
    /\ cmdPc' = "received"
    /\ UNCHANGED <<gateway_actions, gateway_status, cmdResponses, cmdServed, cmdFailed>>
    /\ UNCHANGED notCmd

\* Success of a command whatever the gateway answered.
GatewayAnswered(status) == TRUE

\* send_command, line 67: response.get("status") == "ok".
GatewayOk(status) == status = "ok"

\* send_command, lines 39-64: handle_command; an exception or a missing
\* command or params dict is answered with success=False; otherwise the
\* action is issued to the gateway and the coroutine awaits the answer.
SendCommand(sent) ==
    /\ cmdPc = "received"
    /\ LET r == handle_command(cmdMsg, cmdMsg.group_info)
       IN  IF r.raised
           THEN /\ cmdResponses' = Append(cmdResponses,
                      command_response(cmdMsg.name, FALSE, "exception", sent))
                /\ cmdPc' = "responded"
                /\ UNCHANGED gateway_actions
           ELSE IF r.command = "" \/ r.params = {}
           THEN /\ cmdResponses' = Append(cmdResponses,
                      command_response(cmdMsg.name, FALSE, "missing", sent))
                /\ cmdPc' = "responded"
                /\ UNCHANGED gateway_actions
           ELSE /\ gateway_actions' = Append(gateway_actions, r.command)
                /\ cmdPc' = "issued"
                /\ UNCHANGED cmdResponses
    /\ UNCHANGED <<cmdMsg, gateway_status, cmdServed, cmdFailed>>
    /\ UNCHANGED notCmd

\* send_command, lines 64-83: the answer of the gateway arrives and is
\* reported to Core.
GatewayResponse(status, sent) ==
    /\ cmdPc = "issued"
    /\ gateway_status' = status
    /\ cmdResponses' = Append(cmdResponses,
           command_response(cmdMsg.name, GatewayOk(status),
                            IF GatewayOk(status) THEN "" ELSE "gateway", sent))
    /\ cmdPc' = "responded"
    /\ UNCHANGED <<cmdMsg, gateway_actions, cmdServed, cmdFailed>>
    /\ UNCHANGED notCmd

\* send_command returns; the dispatcher is ready for the next command.
CommandReturn ==
    /\ cmdPc = "responded"
    /\ cmdPc' = "idle"
    /\ cmdServed' = cmdServed + 1
    /\ cmdFailed' = IF cmdResponses[Len(cmdResponses)].success THEN cmdFailed ELSE cmdFailed + 1
    /\ cmdMsg' = NoCommand
    /\ gateway_actions' = <<>>
    /\ gateway_status' = "none"
    /\ cmdResponses' = <<>>
    /\ UNCHANGED notCmd

CmdNext ==
    \/ \E msg \in CommandMessages : CoreCommand(msg)
    \/ \E sent \in BOOLEAN : SendCommand(sent)
    \/ \E status \in GatewayStatuses, sent \in BOOLEAN : GatewayResponse(status, sent)
    \/ CommandReturn

\* The command is one the dispatcher must refuse: unknown name, missing
\* group context, or arguments its handler rejects.
Refused(msg) ==
    \/ msg.name \notin DOMAIN _command_handlers
    \/ _command_handlers[msg.name].require_group /\ ~msg.group_info.some
    \/ CallHandler(_command_handlers[msg.name].handler, msg.args, msg.group_info).raised

\* C18: a command is answered with exactly one command_response; success
\* is true exactly when the gateway action was issued and the gateway
\* answered with status ok; a refused command (unknown name, no group
\* context, invalid arguments) is answered with success false and an error
\* text and no gateway action is issued; at most one action per command.
C18_OneResponsePerCommand ==
    /\ Len(gateway_actions) <= 1
    /\ cmdPc \in {"received", "issued"} => cmdResponses = <<>>
    /\ cmdPc = "responded" =>
          /\ Len(cmdResponses) = 1
          /\ cmdResponses[1].message_type = "command_response"
          /\ cmdResponses[1].success <=> (Len(gateway_actions) = 1 /\ gateway_status = "ok")
          /\ Refused(cmdMsg) =>
                /\ ~cmdResponses[1].success
                /\ cmdResponses[1].error # ""
                /\ gateway_actions = <<>>

\* A command is answered with success after an earlier one was refused.
C18_Witness ==
    /\ cmdPc = "responded"
    /\ cmdFailed > 0
    /\ cmdResponses[1].success
    /\ gateway_actions = <<CommandType.GROUP_BAN>>

\* The gateway action names of the commands the registry holds.
ListedCommands == {CommandType[m] : m \in DOMAIN CommandType}

\* The member whose value is the command name.
MemberOf(name) == CHOOSE m \in DOMAIN CommandType : CommandType[m] = name

\* The arguments and the group context are what the handler of the command
\* accepts.
ValidFor(member, msg) ==
    /\ member \in GroupCommands => msg.group_info.some
    /\ ~CallHandler(member, msg.args, msg.group_info).raised

\* C19: a command message whose name is a listed command name and whose
\* arguments are valid results in the gateway action of that name.
C19_DispatchedByCommandName ==
    (/\ cmdPc \in {"issued", "responded"}
     /\ cmdMsg.name \in ListedCommands
     /\ ValidFor(MemberOf(cmdMsg.name), cmdMsg))
        => gateway_actions = <<cmdMsg.name>>

\* The same with the name field holding the registry key of the command.
DispatchedByRegistryKey ==
    (/\ cmdPc \in {"issued", "responded"}
     /\ cmdMsg.name \in DOMAIN CommandType
     /\ ValidFor(cmdMsg.name, cmdMsg))
        => gateway_actions = <<CommandType[cmdMsg.name]>>

\* C24: the command get_login_info, whose handler returns an empty params
\* dict, is issued to the gateway as the action get_login_info, and the
\* response to Core does not report missing parameters.
C24_EmptyParamsQueryIssued ==
    (cmdPc \in {"issued", "responded"} /\ cmdMsg.name = RegistryKey("GET_LOGIN_INFO"))
        => /\ gateway_actions = <<CommandType.GET_LOGIN_INFO>>
           /\ \A i \in DOMAIN cmdResponses : cmdResponses[i].error # "missing"

(***************************************************************************)
(* SUPERVISOR: graceful_shutdown                                           *)
(***************************************************************************)
\* Tasks of the event loop besides the one running graceful_shutdown.
MaxTasks == 3

ShutTaskIds == 1..MaxTasks

\* How an awaited call ends: it returns, or raises an exception of a class.
AwaitOutcomes == {"returned", "TimeoutError", "Exception"}

\* isinstance(exc, cls) for the exception classes above: TimeoutError is a
\* subclass of Exception.
IsInstance(exc, cls) == exc = cls \/ (exc = "TimeoutError" /\ cls = "Exception")

\* The except clauses that leave out "except Exception" in phases 2 and 3.
ExceptClausesTimeoutOnly(phase) ==
    IF phase = 1 THEN {"Exception"} ELSE {"TimeoutError"}

\* The except clauses around each phase: line 183 (phase 1), lines 189-192
\* (phase 2), lines 210-213 (phase 3).
ExceptClauses(phase) ==
    IF phase = 1 THEN {"Exception"} ELSE {"TimeoutError", "Exception"}

\* The exception is caught by one of the clauses.
Caught(exc, clauses) == \E cls \in clauses : IsInstance(exc, cls)

\* Where graceful_shutdown continues after the awaited call of a phase
\* ended with outcome: at next when the call returned or the clauses of the
\* phase caught the exception; otherwise the exception reaches the outer
\* "except Exception" of line 219, which ends the function; an exception it
\* does not catch leaves graceful_shutdown.
AfterPhase(phase, outcome, next) ==
    IF outcome = "returned" \/ Caught(outcome, ExceptClauses(phase)) THEN next
    ELSE IF Caught(outcome, {"Exception"}) THEN "done"
    ELSE "raised"

NoOutcomes == [p \in 1..3 |-> "skipped"]

ShutInit ==
    /\ shutServer \in BOOLEAN
    /\ shutRouter \in BOOLEAN
    /\ shutTasks \in [ShutTaskIds -> {"none", "pending"}]
    /\ shutPc = "running"
    /\ shutLog = <<>>
    /\ shutOutcome = NoOutcomes

ShutIdle ==
    /\ shutServer = FALSE
    /\ shutRouter = FALSE
    /\ shutTasks = [t \in ShutTaskIds |-> "none"]
    /\ shutPc = "running"
    /\ shutLog = <<>>
    /\ shutOutcome = NoOutcomes

\* The __main__ block calls graceful_shutdown, lines 231, 248, 256.
ShutdownStart ==
    /\ shutPc = "running"
    /\ shutPc' = "phase1"
    /\ UNCHANGED <<shutServer, shutRouter, shutTasks, shutLog, shutOutcome>>
    /\ UNCHANGED notShut

\* Lines 177-184: if a server is referenced, close it and await wait_closed.
CloseServer(outcome) ==
    /\ shutPc = "phase1"
    /\ IF shutServer
       THEN /\ shutLog' = Append(shutLog, "close_server")
            /\ shutOutcome' = [shutOutcome EXCEPT ![1] = outcome]
            /\ shutPc' = AfterPhase(1, outcome, "phase2")
       ELSE /\ outcome = "returned"
            /\ shutPc' = "phase2"
            /\ UNCHANGED <<shutLog, shutOutcome>>
    /\ UNCHANGED <<shutServer, shutRouter, shutTasks>>
    /\ UNCHANGED notShut

\* Lines 187-192: asyncio.wait_for(mmc_stop_com(), timeout=3).  mmc_stop_com
\* (mmc_com_layer.py 162-164) returns at once when no router is set.
StopCore(outcome) ==
    /\ shutPc = "phase2"
    /\ ~shutRouter => outcome = "returned"
    /\ shutLog' = Append(shutLog, "stop_core")
    /\ shutOutcome' = [shutOutcome EXCEPT ![2] = outcome]
    /\ shutPc' = AfterPhase(2, outcome, "phase3")
    /\ UNCHANGED <<shutServer, shutRouter, shutTasks>>
    /\ UNCHANGED notShut

\* Lines 195-200: cancel every task that is not the current one.  Without
\* such tasks lines 203-213 are skipped as well.
CancelTasks ==
    /\ shutPc = "phase3"
    /\ IF \E t \in ShutTaskIds : shutTasks[t] = "pending"
       THEN /\ shutTasks' = [t \in ShutTaskIds |->
                               IF shutTasks[t] = "pending" THEN "cancelling" ELSE shutTasks[t]]
            /\ shutLog' = Append(shutLog, "cancel_tasks")
            /\ shutPc' = "awaiting"
       ELSE /\ shutPc' = "done"
            /\ UNCHANGED <<shutTasks, shutLog>>
    /\ UNCHANGED <<shutServer, shutRouter, shutOutcome>>
    /\ UNCHANGED notShut

\* Lines 203-213: asyncio.wait_for(asyncio.gather(*tasks,
\* return_exceptions=True), timeout=3).  The tasks in stuck have not ended
\* when the deadline passes.
AwaitTasks(outcome, stuck) ==
    /\ shutPc = "awaiting"
    /\ stuck \subseteq {t \in ShutTaskIds : shutTasks[t] = "cancelling"}
    /\ (outcome = "TimeoutError") <=> (stuck # {})
    /\ shutTasks' = [t \in ShutTaskIds |->
                       IF shutTasks[t] = "cancelling" /\ t \notin stuck
                       THEN "cancelled" ELSE shutTasks[t]]
    /\ shutLog' = Append(shutLog, "await_tasks")
    /\ shutOutcome' = [shutOutcome EXCEPT ![3] = outcome]
    /\ shutPc' = AfterPhase(3, outcome, "done")
    /\ UNCHANGED <<shutServer, shutRouter>>
    /\ UNCHANGED notShut

ShutNext ==
    \/ ShutdownStart
    \/ \E outcome \in AwaitOutcomes : CloseServer(outcome)
    \/ \E outcome \in AwaitOutcomes : StopCore(outcome)
    \/ CancelTasks
    \/ \E outcome \in AwaitOutcomes, stuck \in SUBSET ShutTaskIds : AwaitTasks(outcome, stuck)

\* The steps of the three phases in order: the close of the gateway server
\* when there is one, the stop of the Core session, the cancellation of the
\* remaining tasks and the wait for them when there are any.
PhaseSteps ==
    (IF shutServer THEN <<"close_server">> ELSE <<>>)
        \o <<"stop_core">>
        \o (IF \E t \in ShutTaskIds : shutTasks[t] # "none"
            THEN <<"cancel_tasks", "await_tasks">> ELSE <<>>)

IsPrefix(s, t) == Len(s) <= Len(t) /\ SubSeq(t, 1, Len(s)) = s

FilledQueue(n) == [i \in 1..n |-> NoticeWithId(i)]

\* The queues hold any number of notices up to their capacities when a
\* handler calls put_notice.
PutInit ==
    /\ putPc = "call"
    /\ putWarned = FALSE
    /\ \E n \in 0..NoticeQueueMax : notice_queue = FilledQueue(n)
    /\ \E r \in 0..RetryQueueMax : unsuccessful_notice_queue = FilledQueue(r)

PutIdle ==
    /\ putPc = "idle"
    /\ putWarned = FALSE

\* NoticeHandler.put_notice, lines 734-741, called by a handler: the warning
\* of line 739 when the notice is dropped, else `await notice_queue.put`,
\* which suspends the caller while the queue is at its capacity.
PutNoticeCall ==
    /\ putPc = "call"
    /\ LET m == NoticeWithId(0)
           q == put_notice(notice_queue, unsuccessful_notice_queue, m)
       IN  IF q = notice_queue
           THEN /\ putWarned' = TRUE
                /\ putPc' = "returned"
                /\ UNCHANGED notice_queue
           ELSE IF Len(q) > NoticeQueueMax
                THEN /\ putPc' = "blocked"
                     /\ UNCHANGED <<putWarned, notice_queue>>
                ELSE /\ notice_queue' = q
                     /\ putPc' = "returned"
                     /\ UNCHANGED putWarned
    /\ UNCHANGED unsuccessful_notice_queue
    /\ UNCHANGED notPut

PutNext == PutNoticeCall

BothFull ==
    /\ Len(notice_queue) = NoticeQueueMax
    /\ Len(unsuccessful_notice_queue) = RetryQueueMax

\* C23: when the primary queue (100) and the retry queue (3) are both full,
\* put_notice drops the notice with a warning: the notice is not enqueued,
\* both queues are unchanged and the caller returns without blocking.
C23_DropWhenBothFull ==
    [][(putPc = "call" /\ BothFull)
          => /\ notice_queue' = notice_queue
             /\ unsuccessful_notice_queue' = unsuccessful_notice_queue
             /\ putWarned'
             /\ putPc' = "returned"]_vars

\* C23 witness: put_notice has returned with the warning and both queues are
\* still full.
C23_Witness ==
    /\ putPc = "returned"
    /\ putWarned
    /\ BothFull


(***************************************************************************)
(* ROUTER: message_process                                                 *)
(***************************************************************************)
\* Frames the reader puts on message_queue in one run.
MaxRouterFrames == 2

\* A message frame as handle_raw_message reads it: its message_type and
\* sub_type, whether it has a sender, what check_allow_to_chat answers for
\* the sender, whether its message array is empty, and whether
\* handle_real_message produced a segment for it.
RawFrame(message_type, sub_type, sender, allowed, message, segs) ==
    [post_type |-> "message", message_type |-> message_type, sub_type |-> sub_type,
     sender |-> sender, allowed |-> allowed, message |-> message, segs |-> segs]

RouterFrames ==
    {RawFrame("private", "friend", TRUE, TRUE, TRUE, TRUE),
     RawFrame("private", "friend", TRUE, FALSE, TRUE, TRUE),
     RawFrame("private", "friend", FALSE, TRUE, TRUE, TRUE),
     RawFrame("private", "group", TRUE, TRUE, TRUE, TRUE),
     RawFrame("private", "other", TRUE, TRUE, TRUE, TRUE),
     RawFrame("group", "normal", TRUE, TRUE, TRUE, TRUE),
     RawFrame("group", "normal", TRUE, TRUE, FALSE, FALSE),
     RawFrame("group", "normal", TRUE, TRUE, TRUE, FALSE),
     RawFrame("group", "normal", FALSE, TRUE, TRUE, TRUE),
     RawFrame("group", "anonymous", TRUE, TRUE, TRUE, TRUE),
     RawFrame("guild", "normal", TRUE, TRUE, TRUE, TRUE),
     RawFrame("guild", "normal", TRUE, TRUE, FALSE, FALSE),
     [RawFrame("None", "None", FALSE, FALSE, FALSE, FALSE) EXCEPT !.post_type = "meta_event"]}

RouterExceptions == {"AttributeError", "UnboundLocalError"}

\* How MessageHandler.handle_raw_message, lines 100-247, ends: "sent" when the envelope
\* is handed to message_send, "returned" when the frame is dropped with a
\* warning, else the exception that leaves the coroutine.  sender_info.get
\* on a frame without sender raises AttributeError (lines 119-121, 176-178);
\* a message_type other than private and group skips both branches and
\* reaches line 228 with user_info never assigned.
handle_raw_message_outcome(raw_message) ==
    LET tail == IF ~raw_message.message THEN "returned"
                ELSE IF ~raw_message.segs THEN "returned"
                ELSE IF raw_message.message_type \notin {"private", "group"}
                     THEN "UnboundLocalError"
                     ELSE "sent"
        branch(sub) == IF raw_message.sub_type # sub THEN "returned"
                       ELSE IF ~raw_message.sender THEN "AttributeError"
                       ELSE IF ~raw_message.allowed THEN "returned"
                       ELSE tail
    IN  IF raw_message.message_type = "private" THEN branch("friend")
        ELSE IF raw_message.message_type = "group" THEN branch("normal")
        ELSE tail

RouterInit ==
    /\ routerQueue = <<>>
    /\ routerPc = "running"
    /\ routerArrived = 0
    /\ routerLog = <<>>

RouterIdle == RouterInit

\* main.message_recv, lines 28-30: the reader puts a frame with a post_type
\* on message_queue.
RouterFrameArrives(frame) ==
    /\ routerArrived < MaxRouterFrames
    /\ routerArrived' = routerArrived + 1
    /\ routerQueue' = Append(routerQueue, frame)
    /\ UNCHANGED <<routerPc, routerLog>>
    /\ UNCHANGED notRouter

\* main.message_process, lines 39-52: one turn of the loop.  The handler is
\* awaited without a try block, so an exception of the handler leaves the
\* loop and ends the task with that exception; asyncio.gather (main, line
\* 121) re-raises it in main.
MessageProcess ==
    /\ routerPc = "running"
    /\ routerQueue # <<>>
    /\ LET message == Head(routerQueue)
           outcome == IF message.post_type = "message"
                      THEN handle_raw_message_outcome(message)
                      ELSE "returned"
       IN  /\ routerLog' = Append(routerLog, outcome)
           /\ routerPc' = IF outcome \in RouterExceptions THEN "raised" ELSE "running"
    /\ routerQueue' = Tail(routerQueue)
    /\ UNCHANGED routerArrived
    /\ UNCHANGED notRouter

RouterNext ==
    \/ \E frame \in RouterFrames : RouterFrameArrives(frame)
    \/ MessageProcess

\* C21: an error raised while handling one inbound frame (an unsupported
\* message_type, a missing sender) does not end the router task: the task
\* keeps running and the frames queued after it are still taken.
C21_RouterSurvivesFrameError == routerPc = "running"


(***************************************************************************)
(* GATEWAY SESSION: accepted connections                                   *)
(***************************************************************************)
\* Clients that connect to the listener in one run.
MaxClients == 3
\* Frames the clients send in one run.
MaxSessionFrames == 3

Clients == 1..MaxClients
NoConnection == 0

SessionInit ==
    /\ sessionOpen = {}
    /\ server_connection = NoConnection
    /\ sessionQueue = <<>>

SessionIdle == SessionInit

\* napcat_server, lines 142-148, and main.message_recv, lines 22-24: the
\* server of Server.serve runs message_recv for every connection whose
\* handshake passed, whether or not another connection is open, and
\* message_recv makes the new connection the server_connection of the
\* handlers.
MessageRecvStart(c) ==
    /\ c \notin sessionOpen
    /\ sessionOpen' = sessionOpen \cup {c}
    /\ server_connection' = c
    /\ UNCHANGED sessionQueue
    /\ UNCHANGED notSession

\* main.message_recv, lines 25-30: a frame with a post_type read from an open
\* connection is put on message_queue (the entry keeps the connection it
\* came from).
MessageRecvPut(c) ==
    /\ c \in sessionOpen
    /\ Len(sessionQueue) < MaxSessionFrames
    /\ sessionQueue' = Append(sessionQueue, c)
    /\ UNCHANGED <<sessionOpen, server_connection>>
    /\ UNCHANGED notSession

\* main.message_recv, line 25: the connection is closed, the `async for`
\* ends and message_recv returns; the handlers keep their server_connection.
MessageRecvEnd(c) ==
    /\ c \in sessionOpen
    /\ sessionOpen' = sessionOpen \ {c}
    /\ UNCHANGED <<server_connection, sessionQueue>>
    /\ UNCHANGED notSession

SessionNext ==
    \/ \E c \in Clients : MessageRecvStart(c)
    \/ \E c \in Clients : MessageRecvPut(c)
    \/ \E c \in Clients : MessageRecvEnd(c)

\* C22: the Gateway Session serves a single connection: at most one accepted
\* connection feeds message_queue, and while it is open it stays the target
\* of the outbound actions (a second connection neither runs alongside it
\* nor replaces it).
C22_SingleConnection ==
    /\ [](Cardinality(sessionOpen) <= 1)
    /\ [][(sessionOpen # {} /\ server_connection \in sessionOpen)
            => server_connection' = server_connection]_vars


(***************************************************************************)
(* META EVENTS: heartbeat supervision                                      *)
(***************************************************************************)
\* The heartbeat interval, in ticks of the clock.
HeartbeatInterval == 1
\* The clock stops here.
MaxHeartbeatClock == 4
\* Healthy heartbeats the gateway sends in one run.
MaxHeartbeats == 3

HeartbeatInit ==
    /\ heartbeatNow = 0
    /\ last_heart_beat = 0
    /\ _interval_checking = FALSE
    /\ watchdogsCreated = 0
    /\ watchdogsRunning = 0
    /\ watchdogsExited = 0
    /\ heartbeats = 0

HeartbeatIdle == HeartbeatInit

\* handle_meta_event, lines 19-25: lifecycle.connect records the time and
\* creates a check_heartbeat task.
LifecycleConnect ==
    /\ heartbeats = 0
    /\ watchdogsCreated = 0
    /\ last_heart_beat' = heartbeatNow
    /\ watchdogsCreated' = watchdogsCreated + 1
    /\ UNCHANGED <<heartbeatNow, _interval_checking, watchdogsRunning, watchdogsExited,
                   heartbeats>>
    /\ UNCHANGED notHeartbeat

\* handle_meta_event, lines 26-37: a heartbeat with status online and good
\* creates a check_heartbeat task unless _interval_checking is set, and
\* records the time.
HealthyHeartbeat ==
    /\ heartbeats < MaxHeartbeats
    /\ heartbeats' = heartbeats + 1
    /\ watchdogsCreated' = IF ~_interval_checking
                           THEN watchdogsCreated + 1
                           ELSE watchdogsCreated
    /\ last_heart_beat' = heartbeatNow
    /\ UNCHANGED <<heartbeatNow, _interval_checking, watchdogsRunning, watchdogsExited>>
    /\ UNCHANGED notHeartbeat

WatchdogsPending == watchdogsCreated - watchdogsRunning - watchdogsExited

\* check_heartbeat, line 50: a created task starts to run and sets
\* _interval_checking.
WatchdogStart ==
    /\ WatchdogsPending > 0
    /\ _interval_checking' = TRUE
    /\ watchdogsRunning' = watchdogsRunning + 1
    /\ UNCHANGED <<heartbeatNow, last_heart_beat, watchdogsCreated, watchdogsExited, heartbeats>>
    /\ UNCHANGED notHeartbeat

\* check_heartbeat, lines 51-58: a running watchdog wakes up and finds the
\* last heartbeat more than two intervals old: it logs the error and leaves
\* its loop.  Nothing else is assigned.
WatchdogLapse ==
    /\ watchdogsRunning > 0
    /\ heartbeatNow - last_heart_beat > HeartbeatInterval * 2
    /\ watchdogsRunning' = watchdogsRunning - 1
    /\ watchdogsExited' = watchdogsExited + 1
    /\ UNCHANGED <<heartbeatNow, last_heart_beat, _interval_checking, watchdogsCreated,
                   heartbeats>>
    /\ UNCHANGED notHeartbeat

\* Time passes.
HeartbeatTick ==
    /\ heartbeatNow < MaxHeartbeatClock
    /\ heartbeatNow' = heartbeatNow + 1
    /\ UNCHANGED <<last_heart_beat, _interval_checking, watchdogsCreated, watchdogsRunning,
                   watchdogsExited, heartbeats>>
    /\ UNCHANGED notHeartbeat

HeartbeatNext ==
    \/ LifecycleConnect
    \/ HealthyHeartbeat
    \/ WatchdogStart
    \/ WatchdogLapse
    \/ HeartbeatTick

\* C29: heartbeat supervision resumes after a lapse: when every watchdog has
\* left its loop, the next healthy heartbeat creates a new watchdog.
C29_SupervisionResumes ==
    [][(/\ heartbeats' = heartbeats + 1
        /\ watchdogsExited > 0
        /\ watchdogsRunning = 0
        /\ WatchdogsPending = 0)
          => watchdogsCreated' = watchdogsCreated + 1]_vars

(***************************************************************************)
(* SPECIFICATIONS                                                          *)
(***************************************************************************)
InitPool == PoolInit /\ SupIdle /\ BanIdle /\ QueueIdle /\ SendIdle /\ DispIdle /\ AuthIdle /\ FilterIdle /\ OutIdle /\ InIdle /\ FwdIdle /\ CfgIdle /\ DbIdle /\ CmdIdle /\ ShutIdle /\ PutIdle /\ RouterIdle /\ SessionIdle /\ HeartbeatIdle

SpecPool == InitPool /\ [][PoolNext]_vars /\ PoolFairness

InitSup == SupInit /\ PoolIdle /\ BanIdle /\ QueueIdle /\ SendIdle /\ DispIdle /\ AuthIdle /\ FilterIdle /\ OutIdle /\ InIdle /\ FwdIdle /\ CfgIdle /\ DbIdle /\ CmdIdle /\ ShutIdle /\ PutIdle /\ RouterIdle /\ SessionIdle /\ HeartbeatIdle

SpecSup == InitSup /\ [][SupNext]_vars

InitBan == BanInit /\ QueueInit /\ PoolIdle /\ SupIdle /\ SendIdle /\ DispIdle /\ AuthIdle /\ FilterIdle /\ OutIdle /\ InIdle /\ FwdIdle /\ CfgIdle /\ DbIdle /\ CmdIdle /\ ShutIdle /\ PutIdle /\ RouterIdle /\ SessionIdle /\ HeartbeatIdle

SpecBan == InitBan /\ [][BanNext]_vars

SpecBanLive == InitBan /\ [][BanNext]_vars /\ BanFairness

InitSend == SendInit /\ PoolIdle /\ SupIdle /\ BanIdle /\ QueueIdle /\ DispIdle /\ AuthIdle /\ FilterIdle /\ OutIdle /\ InIdle /\ FwdIdle /\ CfgIdle /\ DbIdle /\ CmdIdle /\ ShutIdle /\ PutIdle /\ RouterIdle /\ SessionIdle /\ HeartbeatIdle

SpecSend == InitSend /\ [][SendNext]_vars

InitDisp == DispInit /\ QueueInit /\ PoolIdle /\ SupIdle /\ BanIdle /\ SendIdle /\ AuthIdle /\ FilterIdle /\ OutIdle /\ InIdle /\ FwdIdle /\ CfgIdle /\ DbIdle /\ CmdIdle /\ ShutIdle /\ PutIdle /\ RouterIdle /\ SessionIdle /\ HeartbeatIdle

SpecDisp == InitDisp /\ [][DispNext]_vars /\ DispFairness

InitAuth == AuthInit /\ PoolIdle /\ SupIdle /\ BanIdle /\ QueueIdle /\ DispIdle /\ SendIdle /\ FilterIdle /\ OutIdle /\ InIdle /\ FwdIdle /\ CfgIdle /\ DbIdle /\ CmdIdle /\ ShutIdle /\ PutIdle /\ RouterIdle /\ SessionIdle /\ HeartbeatIdle

SpecAuth == InitAuth /\ [][AuthNext]_vars

InitFilter == FilterInit /\ PoolIdle /\ SupIdle /\ BanIdle /\ QueueIdle /\ DispIdle /\ SendIdle /\ AuthIdle /\ OutIdle /\ InIdle /\ FwdIdle /\ CfgIdle /\ DbIdle /\ CmdIdle /\ ShutIdle /\ PutIdle /\ RouterIdle /\ SessionIdle /\ HeartbeatIdle

SpecFilter == InitFilter /\ [][FilterNext]_vars

InitOut == OutInit /\ PoolIdle /\ SupIdle /\ BanIdle /\ QueueIdle /\ DispIdle /\ SendIdle /\ AuthIdle /\ FilterIdle /\ InIdle /\ FwdIdle /\ CfgIdle /\ DbIdle /\ CmdIdle /\ ShutIdle /\ PutIdle /\ RouterIdle /\ SessionIdle /\ HeartbeatIdle

SpecOut == InitOut /\ [][OutNext]_vars

InitOutMedia == OutMediaInit /\ PoolIdle /\ SupIdle /\ BanIdle /\ QueueIdle /\ DispIdle /\ SendIdle /\ AuthIdle /\ FilterIdle /\ InIdle /\ FwdIdle /\ CfgIdle /\ DbIdle /\ CmdIdle /\ ShutIdle /\ PutIdle /\ RouterIdle /\ SessionIdle /\ HeartbeatIdle

SpecOutMedia == InitOutMedia /\ [][OutNext]_vars

InitIn == InInit /\ PoolIdle /\ SupIdle /\ BanIdle /\ QueueIdle /\ DispIdle /\ SendIdle /\ AuthIdle /\ FilterIdle /\ OutIdle /\ FwdIdle /\ CfgIdle /\ DbIdle /\ CmdIdle /\ ShutIdle /\ PutIdle /\ RouterIdle /\ SessionIdle /\ HeartbeatIdle

SpecIn == InitIn /\ [][InNext]_vars

InitFwd == FwdInit /\ PoolIdle /\ SupIdle /\ BanIdle /\ QueueIdle /\ DispIdle /\ SendIdle /\ AuthIdle /\ FilterIdle /\ OutIdle /\ InIdle /\ CfgIdle /\ DbIdle /\ CmdIdle /\ ShutIdle /\ PutIdle /\ RouterIdle /\ SessionIdle /\ HeartbeatIdle

SpecFwd == InitFwd /\ [][FwdNext]_vars

InitCfg == CfgInit /\ PoolIdle /\ SupIdle /\ BanIdle /\ QueueIdle /\ DispIdle /\ SendIdle /\ AuthIdle /\ FilterIdle /\ OutIdle /\ InIdle /\ FwdIdle /\ DbIdle /\ CmdIdle /\ ShutIdle /\ PutIdle /\ RouterIdle /\ SessionIdle /\ HeartbeatIdle

SpecCfg == InitCfg /\ [][CfgNext]_vars

InitDb == DbInit /\ CfgIdle /\ PoolIdle /\ SupIdle /\ BanIdle /\ QueueIdle /\ DispIdle /\ SendIdle /\ AuthIdle /\ FilterIdle /\ OutIdle /\ InIdle /\ FwdIdle /\ CmdIdle /\ ShutIdle /\ PutIdle /\ RouterIdle /\ SessionIdle /\ HeartbeatIdle

SpecDb == InitDb /\ [][DbNext]_vars

InitCmd == CmdInit /\ PoolIdle /\ SupIdle /\ BanIdle /\ QueueIdle /\ DispIdle /\ SendIdle /\ AuthIdle /\ FilterIdle /\ OutIdle /\ InIdle /\ FwdIdle /\ CfgIdle /\ DbIdle /\ ShutIdle /\ PutIdle /\ RouterIdle /\ SessionIdle /\ HeartbeatIdle

SpecCmd == InitCmd /\ [][CmdNext]_vars

InitShut == ShutInit /\ PoolIdle /\ SupIdle /\ BanIdle /\ QueueIdle /\ DispIdle /\ SendIdle /\ AuthIdle /\ FilterIdle /\ OutIdle /\ InIdle /\ FwdIdle /\ CfgIdle /\ DbIdle /\ CmdIdle /\ PutIdle /\ RouterIdle /\ SessionIdle /\ HeartbeatIdle

SpecShut == InitShut /\ [][ShutNext]_vars

InitPut == PutInit /\ PoolIdle /\ SupIdle /\ BanIdle /\ DispIdle /\ SendIdle /\ AuthIdle /\ FilterIdle /\ OutIdle /\ InIdle /\ FwdIdle /\ CfgIdle /\ DbIdle /\ CmdIdle /\ ShutIdle /\ RouterIdle /\ SessionIdle /\ HeartbeatIdle

SpecPut == InitPut /\ [][PutNext]_vars

InitRouter == RouterInit /\ PoolIdle /\ SupIdle /\ BanIdle /\ QueueIdle /\ DispIdle /\ SendIdle /\ AuthIdle /\ FilterIdle /\ OutIdle /\ InIdle /\ FwdIdle /\ CfgIdle /\ DbIdle /\ CmdIdle /\ ShutIdle /\ PutIdle /\ SessionIdle /\ HeartbeatIdle

SpecRouter == InitRouter /\ [][RouterNext]_vars

InitSession == SessionInit /\ PoolIdle /\ SupIdle /\ BanIdle /\ QueueIdle /\ DispIdle /\ SendIdle /\ AuthIdle /\ FilterIdle /\ OutIdle /\ InIdle /\ FwdIdle /\ CfgIdle /\ DbIdle /\ CmdIdle /\ ShutIdle /\ PutIdle /\ RouterIdle /\ HeartbeatIdle

SpecSession == InitSession /\ [][SessionNext]_vars

InitHeartbeat == HeartbeatInit /\ PoolIdle /\ SupIdle /\ BanIdle /\ QueueIdle /\ DispIdle /\ SendIdle /\ AuthIdle /\ FilterIdle /\ OutIdle /\ InIdle /\ FwdIdle /\ CfgIdle /\ DbIdle /\ CmdIdle /\ ShutIdle /\ PutIdle /\ RouterIdle /\ SessionIdle

SpecHeartbeat == InitHeartbeat /\ [][HeartbeatNext]_vars

====
